---- MODULE Spec2Model ----
(***************************************************************************)
(* A model of the prop verifier of src/nba_stats_fetcher.py                *)
(* (NBAStatsFetcherBallDontLie): opponent normalisation and matching, the  *)
(* selection of a box score from the upstream answers, and the batch loop  *)
(* that classifies every row of the input table; and of get_ev_tier and    *)
(* get_confidence_level of src/display_results.py.                         *)
(*                                                                         *)
(* Python values whose type varies (None, str, int) are tagged records;    *)
(* Python dicts are functions from key strings; str is a TLA+ string.      *)
(***************************************************************************)
EXTENDS Integers, Sequences, FiniteSets, TLC

VARIABLES
    call,       \* the pure-function call being exercised: its name and arguments
    ret,        \* its return value, once it has been applied
    df,         \* update_excel_with_results: the table (a sequence of rows)
    idx,        \* update_excel_with_results: the 1-based position of the row in hand
    pc,         \* update_excel_with_results: where the batch is
    upstream,   \* the data the upstream API holds: players, box scores, games
    frame,      \* the local variables of the fetch_player_game_stats call in hand
    stats,      \* the return value of fetch_player_game_stats for the row in hand
    auth401,    \* the row of the first HTTP 401 answer, and whether an upstream
                \* call was issued after it
    started,    \* api/index.py: the module global started
    threads,    \* api/index.py: where each invocation of handler is
    launched,   \* api/index.py: the start_streamlit threads started so far
    current_results,    \* interactive_display: the list the menu works on
    page_num    \* display_compact_table: the page shown by the paginated view

\* the state of api/index.py, and the state of the displays
server == <<started, threads, launched>>
view == <<current_results, page_num>>

vars == <<call, ret, df, idx, pc, upstream, frame, stats, auth401, server, view>>

\* no handler was invoked
NoServer ==
    /\ started = FALSE
    /\ threads = <<>>
    /\ launched = 0

\* no display is open
NoView ==
    /\ current_results = <<>>
    /\ page_num = 0

(***************************************************************************)
(* Python values                                                           *)
(***************************************************************************)
PyNone == [t |-> "none"]
Str(s) == [t |-> "str", s |-> s]
Num(n) == [t |-> "num", n |-> n]

IsNone(v) == v = PyNone
IsStr(v) == "s" \in DOMAIN v
IsNum(v) == "n" \in DOMAIN v

\* dict.get(key, default)
Get(d, key, default) == IF key \in DOMAIN d THEN d[key] ELSE default

EmptyDict == [k \in {} |-> ""]

(***************************************************************************)
(* str methods                                                             *)
(***************************************************************************)
Lowercase == <<"a", "b", "c", "d", "e", "f", "g", "h", "i", "j", "k", "l", "m",
               "n", "o", "p", "q", "r", "s", "t", "u", "v", "w", "x", "y", "z">>
Uppercase == <<"A", "B", "C", "D", "E", "F", "G", "H", "I", "J", "K", "L", "M",
               "N", "O", "P", "Q", "R", "S", "T", "U", "V", "W", "X", "Y", "Z">>

UpperChar(c) ==
    IF \E i \in 1..Len(Lowercase) : Lowercase[i] = c
    THEN Uppercase[CHOOSE i \in 1..Len(Lowercase) : Lowercase[i] = c]
    ELSE c

RECURSIVE Upper(_)
\* str.upper()
Upper(s) == IF s = "" THEN "" ELSE UpperChar(Head(s)) \o Upper(Tail(s))

RECURSIVE LStrip(_)
LStrip(s) == IF s = "" THEN "" ELSE IF Head(s) = " " THEN LStrip(Tail(s)) ELSE s

RECURSIVE RStrip(_)
RStrip(s) ==
    IF s = "" THEN ""
    ELSE IF SubSeq(s, Len(s), Len(s)) = " " THEN RStrip(SubSeq(s, 1, Len(s) - 1))
    ELSE s

\* str.strip()
Strip(s) == RStrip(LStrip(s))

\* sub in s
Contains(s, sub) ==
    \E i \in 0..(Len(s) - Len(sub)) : SubSeq(s, i + 1, i + Len(sub)) = sub

(***************************************************************************)
(* The team alias table                                                    *)
(***************************************************************************)
team_aliases ==
    [PHX |-> <<"PHOENIX", "SUNS">>,
     GSW |-> <<"GOLDEN STATE", "WARRIORS">>,
     LAL |-> <<"LA LAKERS", "LAKERS", "LOS ANGELES LAKERS">>,
     LAC |-> <<"LA CLIPPERS", "CLIPPERS", "LOS ANGELES CLIPPERS">>,
     NYK |-> <<"NEW YORK", "KNICKS">>,
     BKN |-> <<"BROOKLYN", "NETS">>,
     NOP |-> <<"NEW ORLEANS", "PELICANS">>,
     NO  |-> <<"NEW ORLEANS", "PELICANS">>,
     SAS |-> <<"SAN ANTONIO", "SPURS">>,
     SA  |-> <<"SAN ANTONIO", "SPURS">>,
     CHI |-> <<"CHICAGO", "BULLS">>,
     CHA |-> <<"CHARLOTTE", "HORNETS">>,
     DET |-> <<"DETROIT", "PISTONS">>,
     ORL |-> <<"ORLANDO", "MAGIC">>,
     MIA |-> <<"MIAMI", "HEAT">>,
     MEM |-> <<"MEMPHIS", "GRIZZLIES">>,
     POR |-> <<"PORTLAND", "TRAIL BLAZERS">>,
     TOR |-> <<"TORONTO", "RAPTORS">>,
     WAS |-> <<"WASHINGTON", "WIZARDS">>,
     HOU |-> <<"HOUSTON", "ROCKETS">>,
     ATL |-> <<"ATLANTA", "HAWKS">>,
     BOS |-> <<"BOSTON", "CELTICS">>,
     CLE |-> <<"CLEVELAND", "CAVALIERS">>,
     DAL |-> <<"DALLAS", "MAVERICKS">>,
     DEN |-> <<"DENVER", "NUGGETS">>,
     IND |-> <<"INDIANA", "PACERS">>,
     MIL |-> <<"MILWAUKEE", "BUCKS">>,
     MIN |-> <<"MINNESOTA", "TIMBERWOLVES">>,
     OKC |-> <<"OKLAHOMA CITY", "THUNDER">>,
     PHI |-> <<"PHILADELPHIA", "76ERS">>,
     SAC |-> <<"SACRAMENTO", "KINGS">>,
     UTA |-> <<"UTAH", "JAZZ">>]

(***************************************************************************)
(* normalize_opponent and match_opponent                                   *)
(***************************************************************************)
\* Python truthiness of an Optional[str]
Truthy(v) == ~IsNone(v) /\ v.s # ""

\* normalize_opponent without the 2-letter variants
normalize_opponent_nodrift(opponent) ==
    IF ~Truthy(opponent) THEN PyNone
    ELSE LET o == Strip(Upper(opponent.s))
         IN  Str(o)

normalize_opponent(opponent) ==
    IF ~Truthy(opponent) THEN PyNone
    ELSE LET o == Strip(Upper(opponent.s))
         IN  IF o = "NO" THEN Str("NOP")
             ELSE IF o = "NY" THEN Str("NYK")
             ELSE IF o = "SA" THEN Str("SAS")
             ELSE Str(o)

NoMatch == <<FALSE, PyNone, PyNone>>

\* the alias loop of match_opponent: the first alias, in table order, found in
\* the home name (then 'vs') or in the visitor name (then '@')
RECURSIVE AliasScan(_, _, _, _, _)
AliasScan(aliases, i, home_team, visitor_team, names) ==
    IF i > Len(aliases) THEN NoMatch
    ELSE IF Contains(names[1], aliases[i]) THEN <<TRUE, home_team, Str("vs")>>
    ELSE IF Contains(names[2], aliases[i]) THEN <<TRUE, visitor_team, Str("@")>>
    ELSE AliasScan(aliases, i + 1, home_team, visitor_team, names)

match_opponent(home_team, visitor_team, target_opponent) ==
    IF ~Truthy(target_opponent) THEN NoMatch
    ELSE LET target == normalize_opponent(target_opponent)
             home_abbr == Upper(Get(home_team, "abbreviation", ""))
             visitor_abbr == Upper(Get(visitor_team, "abbreviation", ""))
             home_name == Upper(Get(home_team, "full_name", ""))
             visitor_name == Upper(Get(visitor_team, "full_name", ""))
         IN  IF target = Str(home_abbr) THEN <<TRUE, home_team, Str("vs")>>
             ELSE IF target = Str(visitor_abbr) THEN <<TRUE, visitor_team, Str("@")>>
             ELSE IF ~IsNone(target) /\ target.s \in DOMAIN team_aliases
                  THEN AliasScan(team_aliases[target.s], 1, home_team, visitor_team,
                                 <<home_name, visitor_name>>)
                  ELSE NoMatch

(***************************************************************************)
(* More str methods, used by find_player_id and by the date handling       *)
(***************************************************************************)
LowerChar(c) ==
    IF \E i \in 1..Len(Uppercase) : Uppercase[i] = c
    THEN Lowercase[CHOOSE i \in 1..Len(Uppercase) : Uppercase[i] = c]
    ELSE c

RECURSIVE Lower(_)
\* str.lower()
Lower(s) == IF s = "" THEN "" ELSE LowerChar(Head(s)) \o Lower(Tail(s))

RECURSIVE Replace(_, _, _)
\* str.replace(old, new), old not empty
Replace(s, old, new) ==
    IF Len(s) < Len(old) THEN s
    ELSE IF SubSeq(s, 1, Len(old)) = old
         THEN new \o Replace(SubSeq(s, Len(old) + 1, Len(s)), old, new)
         ELSE Head(s) \o Replace(Tail(s), old, new)

RECURSIVE SplitFrom(_, _, _)
SplitFrom(s, word, acc) ==
    IF s = "" THEN (IF word = "" THEN acc ELSE Append(acc, word))
    ELSE IF Head(s) = " "
         THEN SplitFrom(Tail(s), "", IF word = "" THEN acc ELSE Append(acc, word))
         ELSE SplitFrom(Tail(s), word \o Head(s), acc)

\* str.split(): the whitespace-separated tokens
Split(s) == SplitFrom(s, "", <<>>)

RECURSIVE Before(_, _)
\* s.split(sep)[0], sep a single character
Before(s, sep) ==
    IF s = "" THEN "" ELSE IF Head(s) = sep THEN "" ELSE Head(s) \o Before(Tail(s), sep)

Digits == <<"0", "1", "2", "3", "4", "5", "6", "7", "8", "9">>
IsDigit(c) == \E i \in 1..10 : Digits[i] = c
DigitVal(c) == (CHOOSE i \in 1..10 : Digits[i] = c) - 1

RECURSIVE AllDigits(_)
AllDigits(s) == s = "" \/ (IsDigit(Head(s)) /\ AllDigits(Tail(s)))

RECURSIVE ParseNat(_, _)
ParseNat(s, acc) == IF s = "" THEN acc ELSE ParseNat(Tail(s), 10 * acc + DigitVal(Head(s)))

(***************************************************************************)
(* Dates: strptime(s, '%Y-%m-%d') and the day difference of two dates      *)
(***************************************************************************)
\* a date string the format '%Y-%m-%d' parses (the widths the API sends)
WellFormedDate(s) ==
    /\ Len(s) = 10
    /\ SubSeq(s, 5, 5) = "-" /\ SubSeq(s, 8, 8) = "-"
    /\ AllDigits(SubSeq(s, 1, 4)) /\ AllDigits(SubSeq(s, 6, 7)) /\ AllDigits(SubSeq(s, 9, 10))
    /\ ParseNat(SubSeq(s, 6, 7), 0) \in 1..12
    /\ ParseNat(SubSeq(s, 9, 10), 0) \in 1..31

\* the proleptic Gregorian day count of a (year, month, day)
DaysFromCivil(y0, m, d) ==
    LET y == IF m <= 2 THEN y0 - 1 ELSE y0
        era == y \div 400
        yoe == y - era * 400
        mp == IF m > 2 THEN m - 3 ELSE m + 9
        doy == (153 * mp + 2) \div 5 + d - 1
        doe == yoe * 365 + yoe \div 4 - yoe \div 100 + doy
    IN  era * 146097 + doe

Ordinal(s) ==
    DaysFromCivil(ParseNat(SubSeq(s, 1, 4), 0), ParseNat(SubSeq(s, 6, 7), 0),
                  ParseNat(SubSeq(s, 9, 10), 0))

\* main(): cutoff_date = datetime(2025, 11, 11)
cutoff_date == "2025-11-11"

(***************************************************************************)
(* find_player_id: the queries it issues and what one answer does          *)
(***************************************************************************)
\* an upstream answer: an exception (timeout, transport error) or a status
\* code with the 'data' of the JSON body
Raised == [exc |-> TRUE, status |-> 0, data |-> <<>>]
Answer(status, data) == [exc |-> FALSE, status |-> status, data |-> data]

search_names(player_name) ==
    LET base == <<player_name,
                  Replace(Replace(player_name, ".", ""), "  ", " "),
                  Replace(player_name, "C.J.", "CJ"),
                  Replace(player_name, "J.J.", "JJ")>>
        name_parts == Split(player_name)
    IN  IF Len(name_parts) >= 2
        THEN Append(base, name_parts[Len(name_parts)])
        ELSE base

FullName(player) == player.first_name \o " " \o player.last_name

Squeeze(s) == Lower(Replace(Replace(s, ".", ""), " ", ""))

IsNameMatch(player, player_name) ==
    \/ Lower(FullName(player)) = Lower(player_name)
    \/ Squeeze(player_name) = Squeeze(FullName(player))

Found(player) == [found |-> TRUE, id |-> player.id, full_name |-> FullName(player)]
NotFound == [found |-> FALSE, id |-> 0, full_name |-> ""]

\* One iteration of the loop over search_names: <<"return", value>> when the
\* function returns, <<"continue", NotFound>> when it goes on to the next name.
SearchStep(player_name, search_name, answer) ==
    LET players == answer.data
        name_parts == Split(player_name)
        hits == {i \in 1..Len(players) : IsNameMatch(players[i], player_name)}
    IN  IF answer.exc THEN <<"continue", NotFound>>
        ELSE IF answer.status = 401 THEN <<"return", NotFound>>
        ELSE IF answer.status = 200 /\ Len(players) > 0
        THEN IF hits # {}
             THEN <<"return", Found(players[CHOOSE i \in hits : \A j \in hits : i <= j])>>
             ELSE IF Len(name_parts) = 0 THEN <<"continue", NotFound>>   \* IndexError, caught
             ELSE IF search_name = name_parts[Len(name_parts)]
                  THEN <<"return", Found(players[1])>>
                  ELSE <<"continue", NotFound>>
        ELSE <<"continue", NotFound>>

(***************************************************************************)
(* fetch_player_game_stats: from the box-score rows and the game details   *)
(* to the returned stats                                                   *)
(***************************************************************************)
\* x.get(key, 0) or 0
OrZero(d, key) ==
    LET v == Get(d, key, Num(0)) IN IF IsNone(v) \/ v = Num(0) THEN Num(0) ELSE v

GameOf(game_stat) == Get(game_stat, "game", EmptyDict)
GameId(game_stat) == Get(GameOf(game_stat), "id", 0)

\* list(set(ids of the rows that have one))
game_ids(games) == {GameId(games[i]) : i \in 1..Len(games)} \ {0}

\* The dict both paths return; None when the date does not parse (ValueError,
\* caught by the function's except).
Result(game_stat, game_date, matchup, match_method) ==
    IF ~WellFormedDate(game_date) THEN PyNone
    ELSE [PTS |-> OrZero(game_stat, "pts"),
          REB |-> OrZero(game_stat, "reb"),
          AST |-> OrZero(game_stat, "ast"),
          FG3M |-> OrZero(game_stat, "fg3m"),
          game_date |-> Str(game_date),
          matchup |-> Str(matchup),
          match_method |-> Str(match_method),
          days_old |-> Num(Ordinal(cutoff_date) - Ordinal(game_date))]

\* what the loop "for game_stat in games" reaches from row i on: the first row
\* whose game detail was fetched and whose game matches the opponent
RECURSIVE MatchFrom(_, _, _, _)
MatchFrom(games, game_details, opponent, i) ==
    IF i > Len(games) THEN PyNone
    ELSE LET game_stat == games[i]
             game_id == GameId(game_stat)
         IN  IF game_id \in DOMAIN game_details
             THEN LET full_game == game_details[game_id]
                      home_team == Get(full_game, "home_team", EmptyDict)
                      visitor_team == Get(full_game, "visitor_team", EmptyDict)
                      player_team == Get(game_stat, "team", EmptyDict)
                      m == match_opponent(home_team, visitor_team, opponent)
                  IN  IF m[1]
                      THEN LET game_date == Before(Get(full_game, "date", ""), "T")
                               player_abbr == Get(player_team, "abbreviation", "TEAM")
                               opp_abbr == Get(m[2], "abbreviation", "OPP")
                               matchup == player_abbr \o " " \o m[3].s \o " " \o opp_abbr
                           IN  Result(game_stat, game_date, matchup, "BallDontLie API")
                      ELSE MatchFrom(games, game_details, opponent, i + 1)
             ELSE MatchFrom(games, game_details, opponent, i + 1)

\* the characters of the dates, in code-point order
DateChars == "-.0123456789:TZ"
Rank(c) == CHOOSE i \in 1..Len(DateChars) : SubSeq(DateChars, i, i) = c

RECURSIVE StrLess(_, _)
\* a < b on str
StrLess(a, b) ==
    IF b = "" THEN FALSE
    ELSE IF a = "" THEN TRUE
    ELSE IF Head(a) = Head(b) THEN StrLess(Tail(a), Tail(b))
    ELSE Rank(Head(a)) < Rank(Head(b))

DateKey(game_stat) == Get(GameOf(game_stat), "date", "")

\* MostRecentIndex without the sort: the first row of the answer
MostRecentIndex_first(games) ==
    CHOOSE i \in 1..Len(games) : i = 1

\* sorted(games, key=date, reverse=True)[0]: the first row, in the order of the
\* answer, among those of the greatest key
MostRecentIndex(games) ==
    CHOOSE i \in 1..Len(games) :
        /\ \A j \in 1..Len(games) : ~StrLess(DateKey(games[i]), DateKey(games[j]))
        /\ \A j \in 1..(i - 1) : StrLess(DateKey(games[j]), DateKey(games[i]))

MostRecent(games, game_details) ==
    LET most_recent == games[MostRecentIndex(games)]
        game_id == GameId(most_recent)
        game_date == Before(DateKey(most_recent), "T")
        player_abbr == Get(Get(most_recent, "team", EmptyDict), "abbreviation", "TEAM")
        matchup ==
            IF game_id \in DOMAIN game_details
            THEN LET full_game == game_details[game_id]
                     home_abbr == Get(Get(full_game, "home_team", EmptyDict), "abbreviation", "HOME")
                     visitor_abbr == Get(Get(full_game, "visitor_team", EmptyDict), "abbreviation", "AWAY")
                 IN  IF player_abbr = home_abbr
                     THEN player_abbr \o " vs " \o visitor_abbr
                     ELSE player_abbr \o " @ " \o home_abbr
            ELSE player_abbr \o " (opponent unknown)"
    IN  Result(most_recent, game_date, matchup, "Most recent")

\* SelectGame falling back to the most recent game when no game matches
SelectGame_fallback(games, game_details, opponent) ==
    IF Truthy(opponent)
    THEN LET m == MatchFrom(games, game_details, normalize_opponent(opponent), 1)
         IN  IF IsNone(m) /\ Len(games) > 0 THEN MostRecent(games, game_details) ELSE m
    ELSE MostRecent(games, game_details)

\* lines 275-376: the opponent path when an opponent is given, else the most
\* recent game
SelectGame(games, game_details, opponent) ==
    IF Truthy(opponent)
    THEN MatchFrom(games, game_details, normalize_opponent(opponent), 1)
    ELSE MostRecent(games, game_details)

(***************************************************************************)
(* update_excel_with_results: one row                                      *)
(***************************************************************************)
\* the symbols of the Result column (code points, the module being ASCII)
CheckMark == "U+2713"
BallotX == "U+2717"
Hourglass == "U+23F3"

\* lines 423-427: the opponent handed to fetch_player_game_stats
RowOpponent(row) ==
    IF ~IsNone(row.Opponent) /\ Strip(row.Opponent.s) # ""
    THEN Str(Strip(row.Opponent.s))
    ELSE PyNone

\* line 450: the comparison of a str (the stat name was the key of a text
\* field of the stats) with the line raises TypeError
VerifyRaises(row, st) ==
    ~IsNone(st) /\ IsStr(Get(st, row.Stat, PyNone))

\* the seven result columns as lines 444-466 fill them
Filled(row, st, actual_value) ==
    [row EXCEPT !.Actual_Stat = actual_value,
                !.Game_Date = Get(st, "game_date", Str("")),
                !.Matchup = Get(st, "matchup", Str("")),
                !.Match_Method = Get(st, "match_method", Str("")),
                !.Days_Old = Get(st, "days_old", Str(""))]

Pending(row) ==
    [row EXCEPT !.Actual_Stat = Str("N/A"), !.Hit_Miss = "PENDING", !.Result = Hourglass]

\* Verify with >= for >: a stat equal to the line is a HIT
Verify_ge(row, st) ==
    IF ~IsNone(st)
    THEN LET actual_value == Get(st, row.Stat, PyNone)
         IN  IF ~IsNone(actual_value)
             THEN IF IsStr(actual_value) THEN Filled(row, st, actual_value)
                  ELSE IF actual_value.n >= row.Line
                  THEN [Filled(row, st, actual_value) EXCEPT !.Hit_Miss = "HIT", !.Result = CheckMark]
                  ELSE [Filled(row, st, actual_value) EXCEPT !.Hit_Miss = "MISS", !.Result = BallotX]
             ELSE [row EXCEPT !.Hit_Miss = "ERROR"]
    ELSE Pending(row)

\* Verify writing no status when the stat is not in the stats
Verify_nostatus(row, st) ==
    IF ~IsNone(st)
    THEN LET actual_value == Get(st, row.Stat, PyNone)
         IN  IF ~IsNone(actual_value)
             THEN IF IsStr(actual_value) THEN Filled(row, st, actual_value)
                  ELSE IF actual_value.n > row.Line
                  THEN [Filled(row, st, actual_value) EXCEPT !.Hit_Miss = "HIT", !.Result = CheckMark]
                  ELSE [Filled(row, st, actual_value) EXCEPT !.Hit_Miss = "MISS", !.Result = BallotX]
             ELSE row
    ELSE Pending(row)

\* Verify marking a row without stats ERROR
Verify_error(row, st) ==
    IF ~IsNone(st)
    THEN LET actual_value == Get(st, row.Stat, PyNone)
         IN  IF ~IsNone(actual_value)
             THEN IF IsStr(actual_value) THEN Filled(row, st, actual_value)
                  ELSE IF actual_value.n > row.Line
                  THEN [Filled(row, st, actual_value) EXCEPT !.Hit_Miss = "HIT", !.Result = CheckMark]
                  ELSE [Filled(row, st, actual_value) EXCEPT !.Hit_Miss = "MISS", !.Result = BallotX]
             ELSE [row EXCEPT !.Hit_Miss = "ERROR"]
    ELSE [row EXCEPT !.Hit_Miss = "ERROR"]

\* lines 440-466: the row after its stats were fetched
Verify(row, st) ==
    IF ~IsNone(st)
    THEN LET actual_value == Get(st, row.Stat, PyNone)
         IN  IF ~IsNone(actual_value)
             THEN IF IsStr(actual_value) THEN Filled(row, st, actual_value)
                  ELSE IF actual_value.n > row.Line
                  THEN [Filled(row, st, actual_value) EXCEPT !.Hit_Miss = "HIT", !.Result = CheckMark]
                  ELSE [Filled(row, st, actual_value) EXCEPT !.Hit_Miss = "MISS", !.Result = BallotX]
             ELSE [row EXCEPT !.Hit_Miss = "ERROR"]
    ELSE Pending(row)

(***************************************************************************)
(* The inputs: tables of props and the data of the upstream API            *)
(***************************************************************************)
MaxRows == 2      \* rows of a table
MaxGames == 2     \* box-score rows of a date window
MaxStat == 2      \* the greatest stat value of a box score

\* the lines of the props: the least and the greatest stat value, so that a
\* stat is found below, at and above a line
Lines == {1, MaxStat}

\* lines 408-412: an input row, with the seven result columns added empty
Prop(player, stat, line, opponent) ==
    [Player |-> player, Stat |-> stat, Line |-> line, Opponent |-> opponent,
     Actual_Stat |-> Str(""), Hit_Miss |-> "", Result |-> "", Game_Date |-> Str(""),
     Matchup |-> Str(""), Match_Method |-> Str(""), Days_Old |-> Str("")]

TeamObj(abbreviation, full_name) ==
    [abbreviation |-> abbreviation, full_name |-> full_name]

Celtics == TeamObj("BOS", "Boston Celtics")
Hornets == TeamObj("CHA", "Charlotte Hornets")
Nets == TeamObj("BKN", "Brooklyn Nets")
Pelicans == TeamObj("NOP", "New Orleans Pelicans")
Lakers == TeamObj("LAL", "Los Angeles Lakers")

\* GET /games/{id}: two games of the player's team in the window, one at home
Schedule ==
    (101 :> [id |-> 101, date |-> "2025-11-09", home_team |-> Celtics, visitor_team |-> Hornets])
    @@ (102 :> [id |-> 102, date |-> "2025-11-10", home_team |-> Nets, visitor_team |-> Celtics])

\* GET /stats: a box-score row of the player in a game of the schedule; pts is
\* a number or null, the other fields are fixed
BoxRow(game_id, pts) ==
    [game |-> [id |-> game_id, date |-> Schedule[game_id].date],
     team |-> [abbreviation |-> "BOS"],
     pts |-> pts, reb |-> Num(1), ast |-> Num(2), fg3m |-> Num(0)]

BoxRows == {BoxRow(g, p) : g \in DOMAIN Schedule, p \in {PyNone} \cup {Num(n) : n \in 1..MaxStat}}

SeqsUpTo(S, n) == UNION {[1..k -> S] : k \in 0..n}

\* GET /players: the directory every successful search answers with
Directory == <<[id |-> 237, first_name |-> "LeBron", last_name |-> "James"]>>

Upstream(box) == [players |-> Directory, box |-> box, games |-> Schedule]

NoFrame ==
    [qi |-> 0, player |-> NotFound, games |-> <<>>, todo |-> {}, game_details |-> EmptyDict,
     requested |-> EmptyDict]

NoAuth401 == [row |-> 0, after |-> FALSE]

NoCall == [fn |-> "none"]

(***************************************************************************)
(* update_excel_with_results as a state machine: the loop over the rows,   *)
(* and inside it the upstream calls of fetch_player_game_stats, one action *)
(* per call                                                                *)
(***************************************************************************)
row_in_hand == df[idx]

\* what an upstream endpoint may answer
SearchAnswers == {Answer(200, upstream.players), Answer(200, <<>>), Answer(401, <<>>),
                  Answer(500, <<>>), Raised}
StatsAnswers == {Answer(200, upstream.box), Answer(401, <<>>), Answer(500, <<>>), Raised}
DetailAnswers(game_id) ==
    {IF game_id \in DOMAIN upstream.games
     THEN Answer(200, upstream.games[game_id]) ELSE Answer(404, EmptyDict),
     Answer(500, EmptyDict), Raised}

\* an upstream call is issued and answered
Note401(answer) ==
    IF auth401.row # 0 THEN [auth401 EXCEPT !.after = TRUE]
    ELSE IF ~answer.exc /\ answer.status = 401 THEN [row |-> idx, after |-> FALSE]
    ELSE auth401

\* fetch_player_game_stats returns st: the row is ready to be classified
Return(st) == /\ stats' = st
              /\ pc' = "classify"

\* lines 418-438: the next row is taken and fetch_player_game_stats is entered
StartRow ==
    /\ pc = "loop"
    /\ idx <= Len(df)
    /\ frame' = [NoFrame EXCEPT !.qi = 1]
    /\ stats' = PyNone
    /\ pc' = "search"
    /\ UNCHANGED <<call, ret, df, idx, upstream, auth401, server, view>>

\* lines 129-175: one query of find_player_id and what its answer leads to
SearchCall ==
    /\ pc = "search"
    /\ \E answer \in SearchAnswers :
          LET names == search_names(row_in_hand.Player)
              step == SearchStep(row_in_hand.Player, names[frame.qi], answer)
          IN  /\ auth401' = Note401(answer)
              /\ IF step[1] = "return"
                 THEN IF step[2].found
                      THEN /\ frame' = [frame EXCEPT !.player = step[2], !.qi = 0]
                           /\ pc' = "stats"
                           /\ UNCHANGED stats
                      ELSE /\ Return(PyNone)
                           /\ frame' = [frame EXCEPT !.qi = 0]
                 ELSE IF frame.qi < Len(names)
                      THEN /\ frame' = [frame EXCEPT !.qi = frame.qi + 1]
                           /\ UNCHANGED <<pc, stats>>
                      ELSE /\ Return(PyNone)
                           /\ frame' = [frame EXCEPT !.qi = 0]
    /\ UNCHANGED <<call, ret, df, idx, upstream, server, view>>

\* lines 225-259: the box-score rows of the date window
StatsCall ==
    /\ pc = "stats"
    /\ \E answer \in StatsAnswers :
          /\ auth401' = Note401(answer)
          /\ IF answer.exc \/ answer.status # 200 \/ Len(answer.data) = 0
             THEN /\ Return(PyNone)
                  /\ UNCHANGED frame
             ELSE /\ frame' = [frame EXCEPT !.games = answer.data,
                                            !.todo = game_ids(answer.data)]
                  /\ pc' = IF game_ids(answer.data) = {} THEN "select" ELSE "details"
                  /\ UNCHANGED stats
    /\ UNCHANGED <<call, ret, df, idx, upstream, server, view>>

\* DetailCall asking again for a game whose detail was not obtained
DetailCall_retry ==
    /\ pc = "details"
    /\ \E game_id \in frame.todo : \E answer \in DetailAnswers(game_id) :
          /\ frame' = [frame EXCEPT
                          !.todo = IF ~answer.exc /\ answer.status = 200
                                   THEN @ \ {game_id} ELSE @,
                          !.requested = (game_id :> (Get(@, game_id, 0) + 1)) @@ @,
                          !.game_details = IF ~answer.exc /\ answer.status = 200
                                           THEN (game_id :> answer.data) @@ @
                                           ELSE @]
          /\ pc' = IF frame'.todo = {} THEN "select" ELSE "details"
          /\ auth401' = Note401(answer)
    /\ UNCHANGED <<call, ret, df, idx, upstream, stats, server, view>>

\* lines 261-273: the detail of one of the games not fetched yet; requested
\* counts the GET /games/{id} issued for each id by the call in hand
DetailCall ==
    /\ pc = "details"
    /\ \E game_id \in frame.todo : \E answer \in DetailAnswers(game_id) :
          /\ frame' = [frame EXCEPT
                          !.todo = @ \ {game_id},
                          !.requested = (game_id :> (Get(@, game_id, 0) + 1)) @@ @,
                          !.game_details = IF ~answer.exc /\ answer.status = 200
                                           THEN (game_id :> answer.data) @@ @
                                           ELSE @]
          /\ pc' = IF frame.todo = {game_id} THEN "select" ELSE "details"
          /\ auth401' = Note401(answer)
    /\ UNCHANGED <<call, ret, df, idx, upstream, stats, server, view>>

\* lines 275-376: the game is selected and its stats are returned
Select ==
    /\ pc = "select"
    /\ Return(SelectGame(frame.games, frame.game_details, RowOpponent(row_in_hand)))
    /\ UNCHANGED <<call, ret, df, idx, upstream, frame, auth401, server, view>>

\* Classify writing the results of the row in hand to the first row
Classify_first ==
    /\ pc = "classify"
    /\ df' = [df EXCEPT ![1] = Verify(row_in_hand, stats)]
    /\ IF VerifyRaises(row_in_hand, stats)
       THEN /\ pc' = "raised"
            /\ UNCHANGED idx
       ELSE /\ pc' = "loop"
            /\ idx' = idx + 1
    /\ UNCHANGED <<call, ret, upstream, frame, stats, auth401, server, view>>

\* lines 440-468: the row is classified, or the comparison raises out of the loop
Classify ==
    /\ pc = "classify"
    /\ df' = [df EXCEPT ![idx] = Verify(row_in_hand, stats)]
    /\ IF VerifyRaises(row_in_hand, stats)
       THEN /\ pc' = "raised"
            /\ UNCHANGED idx
       ELSE /\ pc' = "loop"
            /\ idx' = idx + 1
    /\ UNCHANGED <<call, ret, upstream, frame, stats, auth401, server, view>>

\* lines 470-495: the table is saved and the summary printed
Save ==
    /\ pc = "loop"
    /\ idx > Len(df)
    /\ pc' = "done"
    /\ UNCHANGED <<call, ret, df, idx, upstream, frame, stats, auth401, server, view>>

Next == StartRow \/ SearchCall \/ StatsCall \/ DetailCall \/ Select \/ Classify \/ Save

\* the props of one player: every stat name of StatNames, every line, no
\* opponent or an opponent given by its abbreviation
Props(StatNames) ==
    {Prop("LeBron James", stat, line, opponent) :
        stat \in StatNames, line \in Lines,
        opponent \in {PyNone, Str("BKN"), Str("LAL")}}

InitBatch(tables, boxes) ==
    /\ df \in tables
    /\ upstream \in {Upstream(box) : box \in boxes}
    /\ idx = 1
    /\ pc = "loop"
    /\ frame = NoFrame
    /\ stats = PyNone
    /\ auth401 = NoAuth401
    /\ call = NoCall
    /\ ret = PyNone
    /\ NoServer
    /\ NoView

\* one prop on a base stat or on a composite stat, against every window of
\* box-score rows
InitVerify ==
    InitBatch([1..1 -> Props({"PTS", "REB+AST"})], SeqsUpTo(BoxRows, MaxGames))

SpecVerify == InitVerify /\ [][Next]_vars

\* tables of props on a base stat, on a composite stat and on the name of a
\* text field of the stats, against one window of two games
BatchProps ==
    {Prop("LeBron James", stat, 1, opponent) :
        stat \in {"PTS", "REB+AST", "matchup"}, opponent \in {PyNone, Str("BKN")}}

BatchBox == <<BoxRow(101, Num(MaxStat)), BoxRow(102, Num(1))>>

Init == InitBatch(SeqsUpTo(BatchProps, MaxRows), {BatchBox})

Spec == Init /\ [][Next]_vars

\* lines 408-412 on a table that an earlier run saved: the result columns
\* are there and keep what that run wrote, here a HIT
StaleRow(prop) ==
    [prop EXCEPT !.Actual_Stat = Num(MaxStat), !.Hit_Miss = "HIT", !.Result = CheckMark,
                 !.Game_Date = Str("2025-01-10"), !.Matchup = Str("LAL vs BOS"),
                 !.Match_Method = Str("most_recent"), !.Days_Old = Num(3)]

\* tables of input rows and of rows verified by an earlier run
InitStale ==
    InitBatch(SeqsUpTo(BatchProps \cup {StaleRow(prop) : prop \in BatchProps}, MaxRows),
              {BatchBox})

SpecStale == InitStale /\ [][Next]_vars

(***************************************************************************)
(* match_opponent on its own: every game of two of the teams, the player   *)
(* on either side, every opponent token                                    *)
(***************************************************************************)
Teams == {Celtics, Hornets, Nets, Pelicans, Lakers}

OpponentTokens ==
    {PyNone} \cup {Str(s) : s \in {"", "BKN", "bkn", "CHA", "NOP", "NO", " no ", "LAL", "BOS", "XYZ"}}

InitMatch ==
    /\ call \in {[fn |-> "match_opponent", home_team |-> h, visitor_team |-> v,
                  player_side |-> side, target_opponent |-> t, done |-> FALSE] :
                    h \in Teams, v \in Teams, side \in {"home", "visitor"},
                    t \in OpponentTokens}
    /\ call.home_team # call.visitor_team
    /\ ret = NoMatch
    /\ df = <<>>
    /\ upstream = Upstream(<<>>)
    /\ idx = 0
    /\ pc = "none"
    /\ frame = NoFrame
    /\ stats = PyNone
    /\ auth401 = NoAuth401
    /\ NoServer
    /\ NoView

CallMatchOpponent ==
    /\ call.fn = "match_opponent"
    /\ ~call.done
    /\ ret' = match_opponent(call.home_team, call.visitor_team, call.target_opponent)
    /\ call' = [call EXCEPT !.done = TRUE]
    /\ UNCHANGED <<df, idx, pc, upstream, frame, stats, auth401, server, view>>

NextMatch == CallMatchOpponent

SpecMatch == InitMatch /\ [][NextMatch]_vars

(***************************************************************************)
(* find_player_id on its own: one query of the loop over search_names per  *)
(* step, for names of one and of several tokens                            *)
(***************************************************************************)
PlayerNames ==
    {"LeBron James", "lebron james", "LeBron", "James", "C.J. McCollum", "CJ McCollum",
     "Bronny James", "J.J. Redick"}

\* GET /players: what a successful search answers with
Directories ==
    {<<[id |-> 237, first_name |-> "LeBron", last_name |-> "James"]>>,
     <<[id |-> 900, first_name |-> "Bronny", last_name |-> "James"],
       [id |-> 237, first_name |-> "LeBron", last_name |-> "James"]>>,
     <<[id |-> 303, first_name |-> "CJ", last_name |-> "McCollum"]>>}

\* the return value of find_player_id and the query (its 1-based position
\* in search_names) whose answer it was taken from, 0 when from none
SearchRet(value, by) == [value |-> value, by |-> by]

InitSearch ==
    /\ call \in {[fn |-> "find_player_id", player_name |-> n, qi |-> 1, done |-> FALSE] :
                    n \in PlayerNames}
    /\ upstream \in {[players |-> d, box |-> <<>>, games |-> Schedule] : d \in Directories}
    /\ ret = SearchRet(NotFound, 0)
    /\ df = <<>>
    /\ idx = 0
    /\ pc = "none"
    /\ frame = NoFrame
    /\ stats = PyNone
    /\ auth401 = NoAuth401
    /\ NoServer
    /\ NoView

\* GET /players?search=: the players of the directory whose name contains
\* the search string, whatever the case
SearchHits(players, search_name) ==
    LET Hit(player) == Contains(Lower(FullName(player)), Lower(search_name))
    IN  SelectSeq(players, Hit)

\* what the endpoint may answer to the search for search_name
SearchAnswersFor(search_name) ==
    {Answer(200, SearchHits(upstream.players, search_name)), Answer(200, <<>>),
     Answer(401, <<>>), Answer(500, <<>>), Raised}

\* lines 129-175: one query of find_player_id and what its answer leads to
CallFindPlayerId ==
    /\ call.fn = "find_player_id"
    /\ ~call.done
    /\ \E answer \in SearchAnswersFor(search_names(call.player_name)[call.qi]) :
          LET names == search_names(call.player_name)
              step == SearchStep(call.player_name, names[call.qi], answer)
          IN  IF step[1] = "return"
              THEN /\ ret' = SearchRet(step[2], call.qi)
                   /\ call' = [call EXCEPT !.done = TRUE]
              ELSE IF call.qi < Len(names)
                   THEN /\ call' = [call EXCEPT !.qi = call.qi + 1]
                        /\ UNCHANGED ret
                   ELSE /\ ret' = SearchRet(NotFound, 0)
                        /\ call' = [call EXCEPT !.done = TRUE]
    /\ UNCHANGED <<df, idx, pc, upstream, frame, stats, auth401, server, view>>

NextSearch == CallFindPlayerId

SpecSearch == InitSearch /\ [][NextSearch]_vars

(***************************************************************************)
(* src/display_results.py: get_ev_tier and get_confidence_level.           *)
(* The float arguments are exact decimals: ev_pct counts tenths of a       *)
(* percent, model_prob counts hundredths, projection and line count tenths *)
(* of a stat unit; a quotient is kept as a fraction and compared by cross  *)
(* multiplication.                                                         *)
(***************************************************************************)
\* the symbols the two functions return (code points)
Fire == "U+1F525"
CheckBox == "U+2705"
Warning == "U+26A0 U+FE0F"
GreenCircle == "U+1F7E2"
YellowCircle == "U+1F7E1"
OrangeCircle == "U+1F7E0"
RedCircle == "U+1F534"

\* get_ev_tier with the test of SLIGHT as >= 0
get_ev_tier_ge0(ev_pct) ==
    IF ev_pct >= 200 THEN <<Fire \o Fire \o Fire, "ELITE">>
    ELSE IF ev_pct >= 150 THEN <<Fire \o Fire \o Fire, "ELITE">>
    ELSE IF ev_pct >= 100 THEN <<Fire \o Fire, "STRONG">>
    ELSE IF ev_pct >= 50 THEN <<Fire, "GOOD">>
    ELSE IF ev_pct >= 0 THEN <<CheckBox, "SLIGHT">>
    ELSE <<Warning, "NEGATIVE">>

get_ev_tier(ev_pct) ==
    IF ev_pct >= 200 THEN <<Fire \o Fire \o Fire, "ELITE">>
    ELSE IF ev_pct >= 150 THEN <<Fire \o Fire \o Fire, "ELITE">>
    ELSE IF ev_pct >= 100 THEN <<Fire \o Fire, "STRONG">>
    ELSE IF ev_pct >= 50 THEN <<Fire, "GOOD">>
    ELSE IF ev_pct > 0 THEN <<CheckBox, "SLIGHT">>
    ELSE <<Warning, "NEGATIVE">>

Abs(x) == IF x < 0 THEN -x ELSE x

\* abs(projection - line) / line if line != 0 else 0, as a fraction
\* <<numerator, denominator>> of positive denominator
gap_pct(projection, line) ==
    IF line = 0 THEN <<0, 1>>
    ELSE IF line > 0 THEN <<Abs(projection - line), line>>
    ELSE <<-Abs(projection - line), -line>>

\* fraction >= hundredths / 100
AtLeast(fraction, hundredths) == 100 * fraction[1] >= hundredths * fraction[2]

\* confidence_score with 2 points for a probability of 0.60
confidence_score_flat(model_prob, projection, line, n_games) ==
    (IF model_prob >= 60 THEN 2
     ELSE IF model_prob >= 55 THEN 2
     ELSE IF model_prob >= 52 THEN 1
     ELSE 0)
    + (IF AtLeast(gap_pct(projection, line), 15) THEN 2
       ELSE IF AtLeast(gap_pct(projection, line), 10) THEN 1
       ELSE 0)
    + (IF n_games >= 30 THEN 2
       ELSE IF n_games >= 20 THEN 1
       ELSE 0)

\* confidence_score with no point for a sample of 30 games or more
confidence_score_dip(model_prob, projection, line, n_games) ==
    (IF model_prob >= 60 THEN 3
     ELSE IF model_prob >= 55 THEN 2
     ELSE IF model_prob >= 52 THEN 1
     ELSE 0)
    + (IF AtLeast(gap_pct(projection, line), 15) THEN 2
       ELSE IF AtLeast(gap_pct(projection, line), 10) THEN 1
       ELSE 0)
    + (IF n_games >= 30 THEN 0
       ELSE IF n_games >= 20 THEN 1
       ELSE 0)

\* lines 30-52: the score of get_confidence_level
confidence_score(model_prob, projection, line, n_games) ==
    (IF model_prob >= 60 THEN 3
     ELSE IF model_prob >= 55 THEN 2
     ELSE IF model_prob >= 52 THEN 1
     ELSE 0)
    + (IF AtLeast(gap_pct(projection, line), 15) THEN 2
       ELSE IF AtLeast(gap_pct(projection, line), 10) THEN 1
       ELSE 0)
    + (IF n_games >= 30 THEN 2
       ELSE IF n_games >= 20 THEN 1
       ELSE 0)

get_confidence_level(model_prob, projection, line, n_games) ==
    LET score == confidence_score(model_prob, projection, line, n_games)
    IN  IF score >= 6 THEN <<GreenCircle, "HIGH">>
        ELSE IF score >= 4 THEN <<YellowCircle, "MEDIUM">>
        ELSE IF score >= 2 THEN <<OrangeCircle, "LOW">>
        ELSE <<RedCircle, "VERY LOW">>

MaxEvPct == 25    \* the greatest EV, in percent, of a call of get_ev_tier

\* the arguments of the calls of get_confidence_level: values below, at and
\* above every threshold; a line of 0 and a negative line
ModelProbs == {0, 51, 52, 54, 55, 59, 60, 62, 100}
Projections == {0, 180, 209, 220, 225, 230, 300}
PropLines == {-200, 0, 200, 250}
SampleSizes == {0, 19, 20, 29, 30, 35}

InitDisplay ==
    /\ call \in {[fn |-> "get_ev_tier", ev_pct |-> e, done |-> FALSE] :
                    e \in (-10 * MaxEvPct)..(10 * MaxEvPct)}
               \cup {[fn |-> "get_confidence_level", model_prob |-> m, projection |-> p,
                      line |-> l, n_games |-> n, done |-> FALSE] :
                        m \in ModelProbs, p \in Projections, l \in PropLines,
                        n \in SampleSizes}
    /\ ret = <<"", "">>
    /\ df = <<>>
    /\ upstream = Upstream(<<>>)
    /\ idx = 0
    /\ pc = "none"
    /\ frame = NoFrame
    /\ stats = PyNone
    /\ auth401 = NoAuth401
    /\ NoServer
    /\ NoView

CallGetEvTier ==
    /\ call.fn = "get_ev_tier"
    /\ ~call.done
    /\ ret' = get_ev_tier(call.ev_pct)
    /\ call' = [call EXCEPT !.done = TRUE]
    /\ UNCHANGED <<df, idx, pc, upstream, frame, stats, auth401, server, view>>

CallGetConfidenceLevel ==
    /\ call.fn = "get_confidence_level"
    /\ ~call.done
    /\ ret' = get_confidence_level(call.model_prob, call.projection, call.line,
                                   call.n_games)
    /\ call' = [call EXCEPT !.done = TRUE]
    /\ UNCHANGED <<df, idx, pc, upstream, frame, stats, auth401, server, view>>

NextDisplay == CallGetEvTier \/ CallGetConfidenceLevel

SpecDisplay == InitDisplay /\ [][NextDisplay]_vars

(***************************************************************************)
(* normalize_opponent on its own: every token of a few characters          *)
(***************************************************************************)
MaxTokenLen == 3    \* characters of an opponent token

\* a blank, and letters in both cases that spell the 2-letter variants
TokenChars == {" ", "n", "N", "O", "P", "y", "s", "A"}

RECURSIVE StringsUpTo(_)
StringsUpTo(n) ==
    IF n = 0 THEN {""}
    ELSE StringsUpTo(n - 1) \cup {c \o t : c \in TokenChars, t \in StringsUpTo(n - 1)}

InitNormalize ==
    /\ call \in {[fn |-> "normalize_opponent", opponent |-> o, done |-> FALSE] :
                    o \in {PyNone} \cup {Str(t) : t \in StringsUpTo(MaxTokenLen)}}
    /\ ret = PyNone
    /\ df = <<>>
    /\ upstream = Upstream(<<>>)
    /\ idx = 0
    /\ pc = "none"
    /\ frame = NoFrame
    /\ stats = PyNone
    /\ auth401 = NoAuth401
    /\ NoServer
    /\ NoView

CallNormalizeOpponent ==
    /\ call.fn = "normalize_opponent"
    /\ ~call.done
    /\ ret' = normalize_opponent(call.opponent)
    /\ call' = [call EXCEPT !.done = TRUE]
    /\ UNCHANGED <<df, idx, pc, upstream, frame, stats, auth401, server, view>>

NextNormalize == CallNormalizeOpponent

SpecNormalize == InitNormalize /\ [][NextNormalize]_vars

(***************************************************************************)
(* Abbreviation drift: one prop whose opponent is given as a 2-letter      *)
(* variant, against games of the teams the variants stand for              *)
(***************************************************************************)
Knicks == TeamObj("NYK", "New York Knicks")
\* the abbreviations as a feed with 2-letter abbreviations sends them
PelicansShort == TeamObj("NO", "New Orleans Pelicans")
SpursShort == TeamObj("SA", "San Antonio Spurs")

\* GET /games/{id}: the player's team visits New Orleans, New York and San
\* Antonio and hosts New Orleans
DriftSchedule ==
    (201 :> [id |-> 201, date |-> "2025-11-09", home_team |-> Pelicans, visitor_team |-> Celtics])
    @@ (202 :> [id |-> 202, date |-> "2025-11-10", home_team |-> Knicks, visitor_team |-> Celtics])
    @@ (203 :> [id |-> 203, date |-> "2025-11-10", home_team |-> SpursShort, visitor_team |-> Celtics])
    @@ (204 :> [id |-> 204, date |-> "2025-11-09", home_team |-> PelicansShort, visitor_team |-> Celtics])
    @@ (205 :> [id |-> 205, date |-> "2025-11-10", home_team |-> Celtics, visitor_team |-> Pelicans])

DriftRow(game_id) ==
    [game |-> [id |-> game_id, date |-> DriftSchedule[game_id].date],
     team |-> [abbreviation |-> "BOS"],
     pts |-> Num(1), reb |-> Num(1), ast |-> Num(2), fg3m |-> Num(0)]

DriftTokens == {"NO", "no", " No ", "NY", " ny", "SA", "sa ", "NOP"}

InitDrift ==
    /\ df \in [1..1 -> {Prop("LeBron James", "PTS", 1, Str(t)) : t \in DriftTokens}]
    /\ upstream \in {[players |-> Directory, box |-> box, games |-> DriftSchedule] :
                        box \in SeqsUpTo({DriftRow(g) : g \in DOMAIN DriftSchedule}, MaxGames)}
    /\ idx = 1
    /\ pc = "loop"
    /\ frame = NoFrame
    /\ stats = PyNone
    /\ auth401 = NoAuth401
    /\ call = NoCall
    /\ ret = PyNone
    /\ NoServer
    /\ NoView

SpecDrift == InitDrift /\ [][Next]_vars

(***************************************************************************)
(* src/display_results.py: sort_results, filter_results, paginate_results  *)
(* on lists of analysed props. ev counts ten-thousandths of the stake (so  *)
(* ev * 100 counts hundredths of a percent), p_model and p_book count      *)
(* hundredths, projection and line count tenths of a stat unit.            *)
(***************************************************************************)
MaxList == 3    \* props of a list of results

Analysed(player, stat, position, ev, p_model, p_book, projection, line, n_games, odds) ==
    [player |-> player, stat |-> stat, position |-> position, ev |-> ev,
     p_model |-> p_model, p_book |-> p_book, projection |-> projection,
     line |-> line, n_games |-> n_games, odds |-> odds]

\* four props of the four confidence buckets, with ties in ev, in the edge
\* and in the odds, and one whose stat is written in lower case
Pool ==
    {Analysed("LeBron James", "PTS", "SF", 700, 62, 52, 300, 250, 35, -110),
     Analysed("Jayson Tatum", "REB", "PF", 700, 55, 58, 225, 250, 20, 120),
     Analysed("Bronny James", "pts", "PG", -300, 58, 55, 200, 200, 20, -110),
     Analysed("Jalen Brunson", "AST", "PG", 0, 50, 50, 0, 0, 0, 120)}

\* the characters of the confidence labels, in code-point order
LabelChars == " ABCDEFGHIJKLMNOPQRSTUVWXYZ"
LabelRank(c) == CHOOSE i \in 1..Len(LabelChars) : SubSeq(LabelChars, i, i) = c

RECURSIVE LabelLess(_, _)
\* a < b on str
LabelLess(a, b) ==
    IF b = "" THEN FALSE
    ELSE IF a = "" THEN TRUE
    ELSE IF Head(a) = Head(b) THEN LabelLess(Tail(a), Tail(b))
    ELSE LabelRank(Head(a)) < LabelRank(Head(b))

\* the key functions of lines 72-85
SortKey(sort_by, x) ==
    IF sort_by = "prob" THEN x.p_model
    ELSE IF sort_by = "projection" THEN x.projection
    ELSE IF sort_by = "edge" THEN Abs(x.p_model - x.p_book)
    ELSE IF sort_by = "odds" THEN x.odds
    ELSE x.ev

ConfidenceLabel(x) == get_confidence_level(x.p_model, x.projection, x.line, x.n_games)[2]

\* KeyLess as key(a) <= key(b): a prop goes before its equals
KeyLess_orequal(sort_by, a, b) ==
    IF sort_by = "confidence"
    THEN ~LabelLess(ConfidenceLabel(b), ConfidenceLabel(a))
    ELSE SortKey(sort_by, a) <= SortKey(sort_by, b)

\* key(a) < key(b): the labels are compared as str, the other keys as numbers
KeyLess(sort_by, a, b) ==
    IF sort_by = "confidence"
    THEN LabelLess(ConfidenceLabel(a), ConfidenceLabel(b))
    ELSE SortKey(sort_by, a) < SortKey(sort_by, b)

RECURSIVE InsertDesc(_, _, _)
\* x goes before the first element of smaller key: after its equals
InsertDesc(sort_by, x, sorted) ==
    IF sorted = <<>> THEN <<x>>
    ELSE IF KeyLess(sort_by, Head(sorted), x) THEN <<x>> \o sorted
    ELSE <<Head(sorted)>> \o InsertDesc(sort_by, x, Tail(sorted))

RECURSIVE SortedFrom(_, _, _)
SortedFrom(sort_by, results, acc) ==
    IF results = <<>> THEN acc
    ELSE SortedFrom(sort_by, Tail(results), InsertDesc(sort_by, Head(results), acc))

\* sorted(results, key=..., reverse=True): a new list, stable
sort_results(results, sort_by) == SortedFrom(sort_by, results, <<>>)

SortOptions == {"ev", "prob", "projection", "edge", "odds", "confidence"}

SortCalls ==
    {[fn |-> "sort_results", results |-> r, sort_by |-> b, done |-> FALSE] :
        r \in SeqsUpTo(Pool, MaxList), b \in SortOptions}

RECURSIVE SplitOnFrom(_, _, _, _)
SplitOnFrom(s, sep, word, acc) ==
    IF s = "" THEN Append(acc, word)
    ELSE IF Head(s) = sep
         THEN SplitOnFrom(Tail(s), sep, "", Append(acc, word))
         ELSE SplitOnFrom(Tail(s), sep, word \o Head(s), acc)

\* s.split(sep), sep a single character: empty tokens are kept
SplitOn(s, sep) == SplitOnFrom(s, sep, "", <<>>)

\* [t.strip().upper() for t in s.split(',')], as the set of its elements
UpperTokens(s) ==
    LET tokens == SplitOn(s, ",")
    IN {Upper(Strip(tokens[i])) : i \in 1..Len(tokens)}

\* the keyword arguments of filter_results; PyNone is the default
Criteria(min_ev, min_prob, max_prob, stat_types, min_games, positions, player_search) ==
    [min_ev |-> min_ev, min_prob |-> min_prob, max_prob |-> max_prob,
     stats |-> stat_types, min_games |-> min_games, positions |-> positions,
     player_search |-> player_search]

NoCriteria == Criteria(PyNone, PyNone, PyNone, PyNone, PyNone, PyNone, PyNone)

\* the list comprehensions of lines 91-115, one after the other; min_ev counts
\* hundredths of a percent, min_prob and max_prob count percents
Step_min_ev(filtered, c) ==
    IF ~IsNone(c.min_ev)
    THEN SelectSeq(filtered, LAMBDA r : r.ev >= c.min_ev.n)
    ELSE filtered

Step_min_prob(filtered, c) ==
    IF ~IsNone(c.min_prob)
    THEN SelectSeq(filtered, LAMBDA r : r.p_model >= c.min_prob.n)
    ELSE filtered

Step_max_prob(filtered, c) ==
    IF ~IsNone(c.max_prob)
    THEN SelectSeq(filtered, LAMBDA r : r.p_model <= c.max_prob.n)
    ELSE filtered

\* the stat of the prop, as it is written, against the list of lines 101-102
Step_stats(filtered, c) ==
    IF Truthy(c.stats)
    THEN LET stats_list == UpperTokens(c.stats.s)
         IN SelectSeq(filtered, LAMBDA r : r.stat \in stats_list)
    ELSE filtered

\* Step_min_games without its comprehension
Step_min_games_ignored(filtered, c) == filtered

Step_min_games(filtered, c) ==
    IF ~IsNone(c.min_games)
    THEN SelectSeq(filtered, LAMBDA r : r.n_games >= c.min_games.n)
    ELSE filtered

Step_positions(filtered, c) ==
    IF Truthy(c.positions)
    THEN LET pos_list == UpperTokens(c.positions.s)
         IN SelectSeq(filtered, LAMBDA r : r.position \in pos_list)
    ELSE filtered

Step_player_search(filtered, c) ==
    IF Truthy(c.player_search)
    THEN LET search_lower == Lower(c.player_search.s)
         IN SelectSeq(filtered, LAMBDA r : Contains(Lower(r.player), search_lower))
    ELSE filtered

filter_results(results, c) ==
    Step_player_search(
        Step_positions(
            Step_min_games(
                Step_stats(
                    Step_max_prob(
                        Step_min_prob(
                            Step_min_ev(results, c), c), c), c), c), c), c)

MinEvs == {PyNone, Num(1), Num(500)}
MinProbs == {PyNone, Num(53)}
MaxProbs == {PyNone, Num(60)}
StatLists == {PyNone, Str(""), Str("PTS"), Str("pts, reb")}
MinGamesOptions == {PyNone, Num(25)}
PositionLists == {PyNone, Str("pg,c")}
PlayerSearches == {PyNone, Str("James")}

CriteriaSet ==
    {Criteria(a, b, c, d, e, f, g) :
        a \in MinEvs, b \in MinProbs, c \in MaxProbs, d \in StatLists,
        e \in MinGamesOptions, f \in PositionLists, g \in PlayerSearches}

\* the lists of analysed props that name no prop twice
PropLists == {r \in SeqsUpTo(Pool, MaxList) : \A i, j \in 1..Len(r) : i # j => r[i] # r[j]}

FilterCalls ==
    {[fn |-> "filter_results", results |-> r, criteria |-> c, done |-> FALSE] :
        r \in PropLists, c \in CriteriaSet}

MaxPaged == 5       \* props of a list given to paginate_results
MaxPageSize == 3    \* largest page_size

Min(a, b) == IF a <= b THEN a ELSE b

\* PageAt numbering the pages from 0
PageAt_from_zero(results, page_size, i) ==
    <<SubSeq(results, i + 1, Min(i + page_size, Len(results))),
      i \div page_size,
      (Len(results) + page_size - 1) \div page_size>>

\* the tuple yielded for the index i: results[i:i + page_size], the page
\* number and the number of pages
PageAt(results, page_size, i) ==
    <<SubSeq(results, i + 1, Min(i + page_size, Len(results))),
      (i \div page_size) + 1,
      (Len(results) + page_size - 1) \div page_size>>

RECURSIVE PagesFrom(_, _, _)
\* for i in range(i, len(results), page_size): yield ...
PagesFrom(results, page_size, i) ==
    IF i >= Len(results) THEN <<>>
    ELSE <<PageAt(results, page_size, i)>> \o PagesFrom(results, page_size, i + page_size)

\* the tuples the generator yields, in order
paginate_results(results, page_size) == PagesFrom(results, page_size, 0)

\* two props, for lists longer than MaxList
PagedPool ==
    {r \in Pool : r.player \in {"LeBron James", "Jayson Tatum"}}

PaginateCalls ==
    {[fn |-> "paginate_results", results |-> r, page_size |-> n, done |-> FALSE] :
        r \in SeqsUpTo(PagedPool, MaxPaged), n \in 1..MaxPageSize}

(***************************************************************************)
(* DataFrame.to_csv(index=False) and pandas.read_csv: a file is its header *)
(* and the text of its cells; a frame is its columns and its rows, a row   *)
(* giving a str, a number or a missing value for each column. Numbers are  *)
(* written in the units of the model. Quoting is not modelled: no cell of  *)
(* the model holds a comma, a quote or a line break.                       *)
(***************************************************************************)
NaN == [t |-> "nan"]

RECURSIVE NatText(_)
NatText(n) ==
    IF n < 10 THEN Digits[n + 1] ELSE NatText(n \div 10) \o Digits[(n % 10) + 1]

NumText(n) == IF n < 0 THEN "-" \o NatText(-n) ELSE NatText(n)

\* the text to_csv writes for a cell: nothing for a missing value
CellText(v) ==
    IF IsNone(v) \/ v = NaN THEN ""
    ELSE IF IsNum(v) THEN NumText(v.n)
    ELSE v.s

to_csv(table) ==
    [header |-> table.columns,
     lines |-> [i \in 1..Len(table.rows) |->
                  [j \in 1..Len(table.columns) |-> CellText(table.rows[i][table.columns[j]])]]]

\* some of the texts read_csv takes for a missing value
NaTexts == {"", "N/A", "NA", "NaN", "nan", "NULL", "null", "None", "n/a"}

IsNumText(text) ==
    /\ text # ""
    /\ \/ AllDigits(text)
       \/ (Head(text) = "-" /\ Len(text) > 1 /\ AllDigits(Tail(text)))

ParseNumText(text) ==
    IF Head(text) = "-" THEN Num(0 - ParseNat(Tail(text), 0)) ELSE Num(ParseNat(text, 0))

\* a column is numeric when every cell of it that is not missing is a number
NumericColumn(file, j) ==
    \A i \in 1..Len(file.lines) :
        file.lines[i][j] \in NaTexts \/ IsNumText(file.lines[i][j])

ParseCell(file, i, j) ==
    LET text == file.lines[i][j]
    IN  IF text \in NaTexts THEN NaN
        ELSE IF NumericColumn(file, j) THEN ParseNumText(text)
        ELSE Str(text)

\* the rows of the frame read_csv builds from the file
read_csv(file) ==
    [i \in 1..Len(file.lines) |->
        [c \in {file.header[j] : j \in 1..Len(file.header)} |->
            ParseCell(file, i, CHOOSE j \in 1..Len(file.header) : file.header[j] = c)]]

(***************************************************************************)
(* src/display_results.py: export_to_csv                                   *)
(***************************************************************************)
\* a prop of the pool after verification: with the columns export_to_csv
\* selects and with its outcome
ClassifiedProp(r, hit_miss) ==
    [player |-> r.player, stat |-> r.stat, position |-> r.position, ev |-> r.ev,
     p_model |-> r.p_model, p_book |-> r.p_book, projection |-> r.projection,
     line |-> r.line, n_games |-> r.n_games, odds |-> r.odds,
     opponent |-> "BOS", dvp_mult |-> 105, injury |-> "", hit_miss |-> hit_miss]

ClassifiedPool ==
    {ClassifiedProp(r, h) : r \in PagedPool, h \in {"HIT", "MISS", "PENDING", "ERROR"}}

\* lines 358-365: pd.DataFrame(results) with the calculated fields added
ExportFrameRow(r) ==
    [player |-> Str(r.player), stat |-> Str(r.stat), position |-> Str(r.position),
     ev |-> Num(r.ev), p_model |-> Num(r.p_model), p_book |-> Num(r.p_book),
     projection |-> Num(r.projection), line |-> Num(r.line), n_games |-> Num(r.n_games),
     odds |-> Num(r.odds), opponent |-> Str(r.opponent), dvp_mult |-> Num(r.dvp_mult),
     injury |-> Str(r.injury), hit_miss |-> Str(r.hit_miss),
     ev_pct |-> Num(r.ev), model_prob_pct |-> Num(r.p_model), book_prob_pct |-> Num(r.p_book),
     edge_pct |-> Num(r.p_model - r.p_book), proj_line_gap |-> Num(r.projection - r.line)]

\* lines 368-370
cols ==
    <<"player", "stat", "line", "projection", "proj_line_gap", "model_prob_pct",
      "book_prob_pct", "edge_pct", "ev_pct", "odds", "opponent", "position", "dvp_mult",
      "n_games", "injury">>

\* the file export_to_csv writes, None when it writes none
export_to_csv(results) ==
    IF results = <<>> THEN PyNone
    ELSE to_csv([columns |-> cols,
                 rows |-> [i \in 1..Len(results) |-> ExportFrameRow(results[i])]])

ExportCalls ==
    {[fn |-> "export_to_csv", results |-> r, done |-> FALSE] :
        r \in SeqsUpTo(ClassifiedPool, MaxList)}

ListCalls == SortCalls \cup FilterCalls \cup PaginateCalls \cup ExportCalls

InitLists ==
    /\ call \in ListCalls
    /\ ret = <<>>
    /\ df = <<>>
    /\ upstream = Upstream(<<>>)
    /\ idx = 0
    /\ pc = "none"
    /\ frame = NoFrame
    /\ stats = PyNone
    /\ auth401 = NoAuth401
    /\ NoServer
    /\ NoView

CallSortResults ==
    /\ call.fn = "sort_results"
    /\ ~call.done
    /\ ret' = sort_results(call.results, call.sort_by)
    /\ call' = [call EXCEPT !.done = TRUE]
    /\ UNCHANGED <<df, idx, pc, upstream, frame, stats, auth401, server, view>>

CallFilterResults ==
    /\ call.fn = "filter_results"
    /\ ~call.done
    /\ ret' = filter_results(call.results, call.criteria)
    /\ call' = [call EXCEPT !.done = TRUE]
    /\ UNCHANGED <<df, idx, pc, upstream, frame, stats, auth401, server, view>>

CallPaginateResults ==
    /\ call.fn = "paginate_results"
    /\ ~call.done
    /\ ret' = paginate_results(call.results, call.page_size)
    /\ call' = [call EXCEPT !.done = TRUE]
    /\ UNCHANGED <<df, idx, pc, upstream, frame, stats, auth401, server, view>>

CallExportToCsv ==
    /\ call.fn = "export_to_csv"
    /\ ~call.done
    /\ ret' = export_to_csv(call.results)
    /\ call' = [call EXCEPT !.done = TRUE]
    /\ UNCHANGED <<df, idx, pc, upstream, frame, stats, auth401, server, view>>

NextLists == CallSortResults \/ CallFilterResults \/ CallPaginateResults \/ CallExportToCsv

SpecLists == InitLists /\ [][NextLists]_vars

(***************************************************************************)
(* src/api/index.py: handler. Invocations may overlap: each is a sequence  *)
(* of steps, one per statement, and the steps of different invocations     *)
(* interleave (Thread.start() and time.sleep() give up the interpreter     *)
(* lock). started is the module global.                                    *)
(***************************************************************************)
MaxInvocations == 3     \* invocations of handler

InitHandler ==
    /\ started = FALSE
    /\ threads = <<>>
    /\ launched = 0
    /\ call = NoCall
    /\ ret = PyNone
    /\ df = <<>>
    /\ upstream = Upstream(<<>>)
    /\ idx = 0
    /\ pc = "none"
    /\ frame = NoFrame
    /\ stats = PyNone
    /\ auth401 = NoAuth401
    /\ NoView

\* the runtime calls handler for one more request
Invoke ==
    /\ Len(threads) < MaxInvocations
    /\ threads' = Append(threads, "check")
    /\ UNCHANGED <<call, ret, df, idx, pc, upstream, frame, stats, auth401, started, launched, view>>

\* line 19: if not started
CheckStarted ==
    \E t \in 1..Len(threads) :
        /\ threads[t] = "check"
        /\ threads' = [threads EXCEPT ![t] = IF ~started THEN "launch" ELSE "redirect"]
        /\ UNCHANGED <<call, ret, df, idx, pc, upstream, frame, stats, auth401, started, launched, view>>

\* line 20: a thread running start_streamlit, which opens the server process
Launch ==
    \E t \in 1..Len(threads) :
        /\ threads[t] = "launch"
        /\ launched' = launched + 1
        /\ threads' = [threads EXCEPT ![t] = "set"]
        /\ UNCHANGED <<call, ret, df, idx, pc, upstream, frame, stats, auth401, started, view>>

\* line 21: started = True
SetStarted ==
    \E t \in 1..Len(threads) :
        /\ threads[t] = "set"
        /\ started' = TRUE
        /\ threads' = [threads EXCEPT ![t] = "sleep"]
        /\ UNCHANGED <<call, ret, df, idx, pc, upstream, frame, stats, auth401, launched, view>>

\* line 22: time.sleep(2)
Sleep ==
    \E t \in 1..Len(threads) :
        /\ threads[t] = "sleep"
        /\ threads' = [threads EXCEPT ![t] = "redirect"]
        /\ UNCHANGED <<call, ret, df, idx, pc, upstream, frame, stats, auth401, started, launched, view>>

\* lines 25-27: the redirection is answered and handler returns
Redirect ==
    \E t \in 1..Len(threads) :
        /\ threads[t] = "redirect"
        /\ threads' = [threads EXCEPT ![t] = "returned"]
        /\ UNCHANGED <<call, ret, df, idx, pc, upstream, frame, stats, auth401, started, launched, view>>

NextHandler == Invoke \/ CheckStarted \/ Launch \/ SetStarted \/ Sleep \/ Redirect

SpecHandler == InitHandler /\ [][NextHandler]_vars

(***************************************************************************)
(* src/display_results.py: display_compact_table. The call is entered,     *)
(* and in the paginated view each step reads one navigation input and      *)
(* prints the page it leads to. ret holds what the view last printed and   *)
(* the local nav.                                                          *)
(***************************************************************************)
NoPage == [page_results |-> <<>>, start_idx |-> 0, end_idx |-> 0, nav |-> ""]

\* lines 146 and 149-151 for the page page_number
total_pages(display_results, page_size) == (Len(display_results) + page_size - 1) \div page_size

PageShown(display_results, page_size, page_number, nav) ==
    LET start_idx == (page_number - 1) * page_size
        end_idx == Min(start_idx + page_size, Len(display_results))
    IN  [page_results |-> SubSeq(display_results, start_idx + 1, end_idx),
         start_idx |-> start_idx, end_idx |-> end_idx, nav |-> nav]

\* Turn going to the next page whatever the page
Turn_unguarded(nav, page_number, pages) ==
    IF nav = "n" THEN page_number + 1
    ELSE IF nav = "p" /\ page_number > 1 THEN page_number - 1
    ELSE page_number

\* lines 196-203: the page after the input nav
Turn(nav, page_number, pages) ==
    IF nav = "n" /\ page_number < pages THEN page_number + 1
    ELSE IF nav = "p" /\ page_number > 1 THEN page_number - 1
    ELSE page_number

\* what the user may type at the prompt
NavInputs == {"n", "p", "q", " N ", "P", "x", ""}

TableCalls ==
    {[fn |-> "display_compact_table", results |-> r, paginate |-> b, page_size |-> n] :
        r \in SeqsUpTo(PagedPool, MaxPaged), b \in BOOLEAN, n \in 1..MaxPageSize}

InitTable ==
    /\ call \in TableCalls
    /\ ret = NoPage
    /\ pc = "enter"
    /\ page_num = 0
    /\ current_results = <<>>
    /\ df = <<>>
    /\ upstream = Upstream(<<>>)
    /\ idx = 0
    /\ frame = NoFrame
    /\ stats = PyNone
    /\ auth401 = NoAuth401
    /\ NoServer

\* lines 137-151 and 206-232: nothing to display, the table in one piece, or
\* the first page of the paginated view
EnterTable ==
    /\ pc = "enter"
    /\ IF call.results # <<>> /\ call.paginate /\ Len(call.results) > call.page_size
       THEN /\ page_num' = 1
            /\ ret' = PageShown(call.results, call.page_size, 1, "")
            /\ pc' = "page"
       ELSE /\ pc' = "returned"
            /\ UNCHANGED <<page_num, ret>>
    /\ UNCHANGED <<call, df, idx, upstream, frame, stats, auth401, server, current_results>>

\* lines 194-203, then lines 149-151 of the next pass of the loop
Navigate ==
    /\ pc = "page"
    /\ \E typed \in NavInputs :
          LET nav == Lower(Strip(typed))
              pages == total_pages(call.results, call.page_size)
          IN  IF nav = "q"
              THEN /\ pc' = "returned"
                   /\ ret' = [ret EXCEPT !.nav = nav]
                   /\ UNCHANGED page_num
              ELSE /\ page_num' = Turn(nav, page_num, pages)
                   /\ ret' = PageShown(call.results, call.page_size, page_num', nav)
                   /\ UNCHANGED pc
    /\ UNCHANGED <<call, df, idx, upstream, frame, stats, auth401, server, current_results>>

NextTable == EnterTable \/ Navigate

SpecTable == InitTable /\ [][NextTable]_vars

(***************************************************************************)
(* src/display_results.py: interactive_display. One step per pass of the   *)
(* menu loop: the choice is read, with the further inputs its branch asks  *)
(* for, and the branch is run. ret holds the local choice. The views and   *)
(* the exports read current_results and leave it as it is.                 *)
(***************************************************************************)
\* list.copy() with the elements in reverse
ListCopy_reversed(list) == [i \in 1..Len(list) |-> list[Len(list) + 1 - i]]

\* list.copy(): a new list of the same elements
ListCopy(list) == list

\* float(text) of a number typed in percent, in the units of the criteria:
\* hundredths of a percent for an EV, percents for a probability
IsFloatText(text) == IsNumText(text)
EvPercent(text) == Num(100 * ParseNumText(text).n)
ProbPercent(text, default) == IF text = "" THEN Num(default) ELSE ParseNumText(text)

\* lines 545-548
HighConfidenceOnly(props) ==
    SelectSeq(props, LAMBDA r : ConfidenceLabel(r) = "HIGH")

SortChoices == {"5", "6", "7", "8", "9"}
FilterChoices == {"10", "11", "12", "13", "14", "15", "16"}
ViewChoices == {"1", "2", "3", "4"}
ExportChoices == {"18", "19", "20"}

\* lines 491-509
SortOf(choice) ==
    IF choice = "5" THEN "ev"
    ELSE IF choice = "6" THEN "prob"
    ELSE IF choice = "7" THEN "projection"
    ELSE IF choice = "8" THEN "confidence"
    ELSE "edge"

\* what the user may type at the prompts of the branches
PageSizeTyped == {"", "0", "2"}
MinEvTyped == {"", "5", "-4", "five"}
StatsTyped == {"", "PTS", "pts,reb"}
PositionsTyped == {"", "pg"}
MinProbTyped == {"", "53"}
MaxProbTyped == {"", "60", "x"}
PlayerTyped == {"", "James"}

MenuCalls ==
    {[fn |-> "interactive_display", results |-> r] : r \in SeqsUpTo(Pool, MaxList)}

InitMenu ==
    /\ call \in MenuCalls
    /\ ret = ""
    /\ pc = "enter"
    /\ current_results = <<>>
    /\ page_num = 0
    /\ df = <<>>
    /\ upstream = Upstream(<<>>)
    /\ idx = 0
    /\ frame = NoFrame
    /\ stats = PyNone
    /\ auth401 = NoAuth401
    /\ NoServer

\* the branch of the loop that was taken leaves everything but the view
Chosen(choice, shown) ==
    /\ ret' = choice
    /\ current_results' = shown
    /\ UNCHANGED <<call, pc, df, idx, upstream, frame, stats, auth401, server, page_num>>

\* lines 419-423
EnterMenu ==
    /\ pc = "enter"
    /\ IF call.results = <<>>
       THEN /\ pc' = "returned"
            /\ UNCHANGED current_results
       ELSE /\ pc' = "menu"
            /\ current_results' = ListCopy(call.results)
    /\ UNCHANGED <<call, ret, df, idx, upstream, frame, stats, auth401, server, page_num>>

\* lines 466-468
ChooseExit ==
    /\ pc = "menu"
    /\ ret' = "0"
    /\ pc' = "returned"
    /\ UNCHANGED <<call, df, idx, upstream, frame, stats, auth401, server, view>>

\* lines 470-488: the views; a page size of 0 divides by zero at line 146
ChooseView ==
    /\ pc = "menu"
    /\ \E choice \in ViewChoices : \E typed \in IF choice = "1" THEN PageSizeTyped ELSE {""} :
          LET page_size == IF typed # "" /\ AllDigits(typed) THEN ParseNat(typed, 0) ELSE 25
          IN  /\ ret' = choice
              /\ pc' = IF choice = "1" /\ page_size = 0 THEN "raised" ELSE "menu"
    /\ UNCHANGED <<call, df, idx, upstream, frame, stats, auth401, server, view>>

\* lines 490-508
ChooseSort ==
    /\ pc = "menu"
    /\ \E choice \in SortChoices :
          Chosen(choice, sort_results(current_results, SortOf(choice)))

\* lines 510-518
ChooseMinEv ==
    /\ pc = "menu"
    /\ \E typed \in MinEvTyped :
          Chosen("10",
                 IF typed # "" /\ IsFloatText(typed)
                 THEN filter_results(current_results,
                                     [NoCriteria EXCEPT !.min_ev = EvPercent(typed)])
                 ELSE current_results)

\* lines 520-530
ChooseStatsOrPositions ==
    /\ pc = "menu"
    /\ \/ \E typed \in StatsTyped :
             Chosen("11",
                    IF typed # ""
                    THEN filter_results(current_results, [NoCriteria EXCEPT !.stats = Str(typed)])
                    ELSE current_results)
       \/ \E typed \in PositionsTyped :
             Chosen("12",
                    IF typed # ""
                    THEN filter_results(current_results,
                                        [NoCriteria EXCEPT !.positions = Str(typed)])
                    ELSE current_results)

\* lines 532-541
ChooseProbRange ==
    /\ pc = "menu"
    /\ \E min_p \in MinProbTyped, max_p \in MaxProbTyped :
          Chosen("13",
                 IF (min_p = "" \/ IsFloatText(min_p)) /\ (max_p = "" \/ IsFloatText(max_p))
                 THEN filter_results(current_results,
                                     [NoCriteria EXCEPT !.min_prob = ProbPercent(min_p, 0),
                                                        !.max_prob = ProbPercent(max_p, 100)])
                 ELSE current_results)

\* lines 543-547
ChooseSearch ==
    /\ pc = "menu"
    /\ \E typed \in PlayerTyped :
          Chosen("14",
                 IF typed # ""
                 THEN filter_results(current_results,
                                     [NoCriteria EXCEPT !.player_search = Str(typed)])
                 ELSE current_results)

\* lines 549-551: min_ev = 0.01, a hundredth of a percent
ChoosePositiveEv ==
    /\ pc = "menu"
    /\ Chosen("15", filter_results(current_results, [NoCriteria EXCEPT !.min_ev = Num(1)]))

\* lines 553-558
ChooseHighConfidence ==
    /\ pc = "menu"
    /\ Chosen("16", HighConfidenceOnly(current_results))

\* lines 560-562
ChooseReset ==
    /\ pc = "menu"
    /\ Chosen("17", ListCopy(call.results))

\* lines 564-576: the exports, and lines 578-579: any other choice
ChooseExportOrOther ==
    /\ pc = "menu"
    /\ \E choice \in ExportChoices \cup {"", "21", "x"} :
          Chosen(choice, current_results)

NextMenu ==
    \/ EnterMenu \/ ChooseExit \/ ChooseView \/ ChooseSort \/ ChooseMinEv
    \/ ChooseStatsOrPositions \/ ChooseProbRange \/ ChooseSearch \/ ChoosePositiveEv
    \/ ChooseHighConfidence \/ ChooseReset \/ ChooseExportOrOther

SpecMenu == InitMenu /\ [][NextMenu]_vars

(***************************************************************************)
(* The claims                                                              *)
(***************************************************************************)
\* fetch_player_game_stats has returned for the row in hand
Returned == pc = "classify"

\* a row has been classified: it is row idx - 1, and frame and stats are
\* still those of its fetch
Classified == pc \in {"loop", "done"} /\ idx > 1
last_row == df[idx - 1]

BaseStats == {"PTS", "REB", "AST", "FG3M"}
Statuses == {"HIT", "MISS", "PENDING", "ERROR"}

\* row i of the window has a fetched game detail and match_opponent reports
\* the opponent in it
RowMatches(i, opponent) ==
    LET game_id == GameId(frame.games[i])
    IN  /\ game_id \in DOMAIN frame.game_details
        /\ match_opponent(Get(frame.game_details[game_id], "home_team", EmptyDict),
                          Get(frame.game_details[game_id], "visitor_team", EmptyDict),
                          normalize_opponent(opponent))[1]

NoGameMatches(opponent) == \A i \in 1..Len(frame.games) : ~RowMatches(i, opponent)

\* C1: with an opponent given, fetch_player_game_stats returns None when no
\* row of the window has a resolved game that matches the opponent, and it
\* never returns a result whose match_method is 'Most recent'.
C1_NoFallback ==
    (Returned /\ Truthy(RowOpponent(row_in_hand))) =>
        /\ NoGameMatches(RowOpponent(row_in_hand)) => IsNone(stats)
        /\ ~IsNone(stats) => stats.match_method # Str("Most recent")

\* an opponent was given, the window has rows with resolved games, none of
\* them matches, and nothing was returned
C1_Witness ==
    /\ Returned
    /\ Truthy(RowOpponent(row_in_hand))
    /\ Len(frame.games) > 0
    /\ \A i \in 1..Len(frame.games) : GameId(frame.games[i]) \in DOMAIN frame.game_details
    /\ NoGameMatches(RowOpponent(row_in_hand))
    /\ IsNone(stats)

\* the player's opponent in the game of a match_opponent call
TrueOpponent == IF call.player_side = "home" THEN call.visitor_team ELSE call.home_team
PlayerTeam == IF call.player_side = "home" THEN call.home_team ELSE call.visitor_team

\* C2: when match_opponent reports a match for token T, the team it returns
\* is the team whose abbreviation is normalize_opponent(T), and that team is
\* the player's opponent in the game, never the player's own team.
C2_NoMisassignment ==
    (call.done /\ ret[1]) =>
        /\ Str(Upper(Get(ret[2], "abbreviation", ""))) = normalize_opponent(call.target_opponent)
        /\ ret[2] = TrueOpponent
        /\ ret[2] # PlayerTeam

\* a failure local to the classified row: nothing was fetched for it, or the
\* stat is not in what was fetched
RowFailed == IsNone(stats) \/ IsNone(Get(stats, last_row.Stat, PyNone))

\* C3: a row-local failure is captured in the row's Hit_Miss (PENDING or
\* ERROR), nothing raises out of the loop over the rows, and the rows after
\* it are processed.
C3_Isolation ==
    /\ pc # "raised"
    /\ (Classified /\ RowFailed) => last_row.Hit_Miss \in {"PENDING", "ERROR"}

\* C4: after an upstream call answered HTTP 401 the batch stops: no upstream
\* call is issued any more, no later row receives a status, and the row is
\* not recorded as an ordinary PENDING row.
C4_AuthFatal ==
    auth401.row # 0 =>
        /\ ~auth401.after
        /\ df[auth401.row].Hit_Miss # "PENDING"
        /\ \A j \in (auth401.row + 1)..Len(df) : df[j].Hit_Miss = ""

\* C5: a row whose stat was resolved from a matched box score is HIT with the
\* check mark exactly when the actual value is greater than the line, and MISS
\* with the ballot X otherwise; a value equal to the line is a MISS.
C5_HitMiss ==
    (Classified /\ ~IsNone(stats) /\ last_row.Stat \in BaseStats) =>
        LET actual_value == stats[last_row.Stat]
        IN  /\ last_row.Actual_Stat = actual_value
            /\ \E i \in 1..Len(frame.games) :
                  OrZero(frame.games[i], Lower(last_row.Stat)) = actual_value
            /\ IF actual_value.n > last_row.Line
               THEN last_row.Hit_Miss = "HIT" /\ last_row.Result = CheckMark
               ELSE last_row.Hit_Miss = "MISS" /\ last_row.Result = BallotX

\* the boundary: the stat of the matched box score equals the line, a MISS
C5_Witness ==
    /\ Classified
    /\ ~IsNone(stats)
    /\ last_row.Stat = "PTS"
    /\ stats.PTS = Num(last_row.Line)
    /\ last_row.Hit_Miss = "MISS"

\* the stat resolved for the classified row, None when there is none
Resolved == IF IsNone(stats) THEN PyNone ELSE Get(stats, last_row.Stat, PyNone)

\* C6: once the table is processed every row's Hit_Miss is one of HIT, MISS,
\* PENDING, ERROR, and the Hit_Miss of a row is decided by its resolved stat
\* against its line, or by the absence of a resolved stat.
C6_FourValues ==
    /\ pc = "done" => \A i \in 1..Len(df) : df[i].Hit_Miss \in Statuses
    /\ Classified =>
          IF IsNum(Resolved)
          THEN last_row.Hit_Miss = (IF Resolved.n > last_row.Line THEN "HIT" ELSE "MISS")
          ELSE last_row.Hit_Miss \in {"PENDING", "ERROR"}

\* a processed table of several rows with a row without stat and a row with
\* a stat that was classified
C6_Witness ==
    /\ pc = "done"
    /\ Len(df) >= 2
    /\ \E i, j \in 1..Len(df) :
          /\ df[i].Hit_Miss = "ERROR"
          /\ df[j].Hit_Miss \in {"HIT", "MISS"}

\* C7: when no game was found for the prop the row is PENDING, with the
\* hourglass and the actual stat 'N/A'.
C7_Pending ==
    (Classified /\ IsNone(stats)) =>
        /\ last_row.Hit_Miss = "PENDING"
        /\ last_row.Result = Hourglass
        /\ last_row.Actual_Stat = Str("N/A")

\* the player was found, the window has rows, an opponent was given and no
\* game was returned
C7_Witness ==
    /\ Classified
    /\ IsNone(stats)
    /\ frame.player.found
    /\ Len(frame.games) > 0
    /\ Truthy(RowOpponent(last_row))
    /\ last_row.Hit_Miss = "PENDING"

\* every row of the window lacks the field of the stat
FieldMissing(stat) ==
    \A i \in 1..Len(frame.games) : IsNone(Get(frame.games[i], Lower(stat), PyNone))

\* C8: with a game matched, a stat that cannot be resolved (a name that is
\* no base or composite stat, or a box score without the field) makes the row
\* ERROR with no actual stat, never HIT or MISS.
C8_Unresolvable ==
    (/\ Classified
     /\ ~IsNone(stats)
     /\ \/ last_row.Stat \notin BaseStats \cup {"REB+AST"}
        \/ last_row.Stat \in BaseStats /\ FieldMissing(last_row.Stat)) =>
        /\ last_row.Hit_Miss = "ERROR"
        /\ last_row.Actual_Stat = Str("")

\* C9: the composite stat REB+AST is the sum of REB and AST of the matched
\* box score, and is classified HIT or MISS against the line.
C9_Composite ==
    (Classified /\ ~IsNone(stats) /\ last_row.Stat = "REB+AST") =>
        /\ last_row.Actual_Stat = Num(stats.REB.n + stats.AST.n)
        /\ last_row.Hit_Miss =
              (IF stats.REB.n + stats.AST.n > last_row.Line THEN "HIT" ELSE "MISS")

\* match_opponent returned the team the token names, the player's opponent
RightMatch ==
    /\ call.done
    /\ ret[1]
    /\ ret[2] = TrueOpponent
    /\ Str(Upper(Get(ret[2], "abbreviation", ""))) = normalize_opponent(call.target_opponent)

\* C10: the location of a match is 'vs' exactly when the player's team is the
\* home team and '@' exactly when it is the visitor (here on the
\* opponent-matched path, for the matches that return the player's opponent).
C10_Location ==
    RightMatch =>
        /\ ret[3] = Str("vs") <=> call.player_side = "home"
        /\ ret[3] = Str("@") <=> call.player_side = "visitor"

\* the 2-letter variants and the abbreviations they stand for
DriftVariants == [NO |-> "NOP", NY |-> "NYK", SA |-> "SAS"]
Drifted(token) == Strip(Upper(token)) \in DOMAIN DriftVariants

\* the team of abbreviation T by its abbreviation or by one of its aliases
IsTeam(team, T) ==
    \/ Upper(Get(team, "abbreviation", "")) = T
    \/ \E k \in 1..Len(team_aliases[T]) :
          Contains(Upper(Get(team, "full_name", "")), team_aliases[T][k])

\* row i of the window has a fetched game detail whose home team is T
HomeIs(i, T) ==
    LET game_id == GameId(frame.games[i])
    IN  /\ game_id \in DOMAIN frame.game_details
        /\ IsTeam(frame.game_details[game_id].home_team, T)

\* row i of the window has a fetched game detail one of whose teams is T
Involves(i, T) ==
    LET game_id == GameId(frame.games[i])
    IN  /\ game_id \in DOMAIN frame.game_details
        /\ \/ IsTeam(frame.game_details[game_id].home_team, T)
           \/ IsTeam(frame.game_details[game_id].visitor_team, T)

\* C11: an opponent token given as a 2-letter variant (NO, NY, SA, in any
\* case, with surrounding blanks) is normalized to NOP, NYK, SAS, and the
\* first game of the window that involves that team, when the team is its
\* home team by abbreviation or by an alias in the full name, is returned
\* with location 'vs' and match_method 'BallDontLie API'.
C11_Drift ==
    (Returned /\ Drifted(row_in_hand.Opponent.s)) =>
        LET T == DriftVariants[Strip(Upper(row_in_hand.Opponent.s))]
        IN  /\ normalize_opponent(row_in_hand.Opponent) = Str(T)
            /\ normalize_opponent(RowOpponent(row_in_hand)) = Str(T)
            /\ \A i \in 1..Len(frame.games) :
                  (HomeIs(i, T) /\ \A j \in 1..(i - 1) : ~Involves(j, T)) =>
                      LET full_game == frame.game_details[GameId(frame.games[i])]
                      IN  /\ ~IsNone(stats)
                          /\ stats.match_method = Str("BallDontLie API")
                          /\ stats.game_date = Str(full_game.date)
                          /\ stats.matchup =
                                Str("BOS vs " \o full_game.home_team.abbreviation)

\* the token ' No ' was matched, through the alias 'NEW ORLEANS', with a game
\* whose home team is abbreviated 'NO'
C11_Witness ==
    /\ Returned
    /\ row_in_hand.Opponent = Str(" No ")
    /\ ~IsNone(stats)
    /\ stats.matchup = Str("BOS vs NO")
    /\ stats.match_method = Str("BallDontLie API")

\* row i of the window has the latest game date of the window
LatestDate(i) ==
    \A j \in 1..Len(frame.games) :
        Ordinal(Before(DateKey(frame.games[j]), "T"))
            <= Ordinal(Before(DateKey(frame.games[i]), "T"))

\* C12: without an opponent and with at least one row in the window,
\* fetch_player_game_stats returns the stats of a row of the latest game date
\* with match_method 'Most recent'; when the detail of that game was not
\* fetched the matchup reads '<team> (opponent unknown)'.
C12_MostRecent ==
    (Returned /\ ~Truthy(RowOpponent(row_in_hand)) /\ Len(frame.games) > 0) =>
        /\ ~IsNone(stats)
        /\ stats.match_method = Str("Most recent")
        /\ \E i \in 1..Len(frame.games) :
              /\ LatestDate(i)
              /\ stats.game_date = Str(Before(DateKey(frame.games[i]), "T"))
              /\ stats.PTS = OrZero(frame.games[i], "pts")
              /\ stats.REB = OrZero(frame.games[i], "reb")
              /\ stats.AST = OrZero(frame.games[i], "ast")
              /\ stats.FG3M = OrZero(frame.games[i], "fg3m")
              /\ GameId(frame.games[i]) \notin DOMAIN frame.game_details =>
                    stats.matchup =
                        Str(frame.games[i].team.abbreviation \o " (opponent unknown)")

\* the later game is the second row of the answer, its detail was not fetched
\* while that of the earlier game was, and it is the one returned
C12_Witness ==
    /\ Returned
    /\ ~Truthy(RowOpponent(row_in_hand))
    /\ Len(frame.games) = 2
    /\ ~LatestDate(1)
    /\ GameId(frame.games[1]) \in DOMAIN frame.game_details
    /\ GameId(frame.games[2]) \notin DOMAIN frame.game_details
    /\ frame.games[1].pts # frame.games[2].pts
    /\ ~IsNone(stats)
    /\ stats.PTS = OrZero(frame.games[2], "pts")
    /\ stats.matchup = Str("BOS (opponent unknown)")

\* find_player_id returned a player whose full name is neither the requested
\* name up to case nor the requested name up to dots, blanks and case
ReturnedNonMatching ==
    /\ call.done
    /\ ret.value.found
    /\ Lower(ret.value.full_name) # Lower(call.player_name)
    /\ Squeeze(ret.value.full_name) # Squeeze(call.player_name)

\* C13: find_player_id returns a result that does not match the requested
\* name only from the last-name-only query, the one appended to the four
\* name formats for names of at least 2 tokens; never from an earlier query
\* and never for a name of a single token.
C13_LastNameOnly ==
    ReturnedNonMatching =>
        /\ Len(Split(call.player_name)) >= 2
        /\ ret.by = Len(search_names(call.player_name))
        /\ ret.by > 4

\* the columns of the input table
InputColumns(row) ==
    [Player |-> row.Player, Stat |-> row.Stat, Line |-> row.Line, Opponent |-> row.Opponent]

\* C14: no step of update_excel_with_results adds, drops or moves a row or
\* changes an input column; a row changes only in its result columns, and
\* only while it is the row in hand being classified.
C14_Preserved ==
    [][/\ Len(df') = Len(df)
       /\ \A i \in 1..Len(df) :
             /\ DOMAIN df'[i] = DOMAIN df[i]
             /\ InputColumns(df'[i]) = InputColumns(df[i])
             /\ df'[i] # df[i] => (i = idx /\ pc = "classify")]_vars

\* a processed table of two different props, the first left pending, the second
\* with the results of its own game
C14_Witness ==
    /\ pc = "done"
    /\ Len(df) = 2
    /\ InputColumns(df[1]) # InputColumns(df[2])
    /\ df[1].Hit_Miss = "PENDING"
    /\ df[2].Hit_Miss = "MISS"
    /\ df[2].Matchup = Str("BOS @ BKN")

\* C15: whatever the table and the upstream outcomes, a row issues a bounded
\* number of upstream calls (at most one per search name, one for the box
\* scores and one per game of the window), the batch is never stopped short
\* of the summary, and when the summary is reported every row was processed.
C15_Finishes ==
    /\ frame.qi <= 5
    /\ Cardinality(frame.todo) <= Len(frame.games)
    /\ pc # "raised"
    /\ pc = "done" =>
          /\ idx = Len(df) + 1
          /\ \A i \in 1..Len(df) : df[i].Hit_Miss # ""

\* the game-detail loop of the fetch in hand is over
DetailsFetched == pc \in {"select", "classify"} \/ (Classified /\ Len(frame.games) > 0)

\* C16: within one fetch_player_game_stats call GET /games/{id} is issued at
\* most once for an id, only for ids the box-score rows reference, and, once
\* the loop over the ids is over, exactly once for each distinct id,
\* whatever the number of rows that reference it.
C16_OncePerGame ==
    /\ \A game_id \in DOMAIN frame.requested :
          /\ frame.requested[game_id] = 1
          /\ \E i \in 1..Len(frame.games) : GameId(frame.games[i]) = game_id
    /\ (DetailsFetched /\ Len(frame.games) > 0) =>
          \A i \in 1..Len(frame.games) :
              /\ GameId(frame.games[i]) \in DOMAIN frame.requested
              /\ frame.requested[GameId(frame.games[i])] = 1

\* two rows of the window reference the same game, whose detail was
\* requested once and not obtained
C16_Witness ==
    /\ pc = "select"
    /\ Len(frame.games) = 2
    /\ GameId(frame.games[1]) = GameId(frame.games[2])
    /\ frame.requested = (GameId(frame.games[1]) :> 1)
    /\ DOMAIN frame.game_details = {}

\* the tiers the partition gives an EV of ev_pct tenths of a percent
TiersOf(ev_pct) ==
    {t \in {"ELITE", "STRONG", "GOOD", "SLIGHT", "NEGATIVE"} :
        \/ t = "ELITE" /\ ev_pct >= 150
        \/ t = "STRONG" /\ 100 <= ev_pct /\ ev_pct < 150
        \/ t = "GOOD" /\ 50 <= ev_pct /\ ev_pct < 100
        \/ t = "SLIGHT" /\ 0 < ev_pct /\ ev_pct < 50
        \/ t = "NEGATIVE" /\ ev_pct <= 0}

\* C17: get_ev_tier returns the one tier of the partition ELITE >= 15,
\* 10 <= STRONG < 15, 5 <= GOOD < 10, 0 < SLIGHT < 5, NEGATIVE <= 0; 12 gives
\* STRONG, -3 and 0 give NEGATIVE.
C17_Partition ==
    (call.fn = "get_ev_tier" /\ call.done) =>
        /\ TiersOf(call.ev_pct) = {ret[2]}
        /\ call.ev_pct = 120 => ret[2] = "STRONG"
        /\ call.ev_pct \in {-30, 0} => ret[2] = "NEGATIVE"

\* the boundary of SLIGHT and NEGATIVE: an EV of 0 is NEGATIVE
C17_Witness ==
    /\ call.fn = "get_ev_tier"
    /\ call.done
    /\ call.ev_pct = 0
    /\ ret = <<Warning, "NEGATIVE">>

\* the score as the sum of three independent signals: one point per
\* threshold reached; the gap |projection - line| / line reaches no
\* threshold when the line is 0 (gap 0) or negative (gap at most 0)
SignalScore(model_prob, projection, line, n_games) ==
    Cardinality({t \in {52, 55, 60} : model_prob >= t})
    + Cardinality({t \in {10, 15} : line > 0 /\ 100 * Abs(projection - line) >= t * line})
    + Cardinality({t \in {20, 30} : n_games >= t})

BucketOf(score) ==
    IF score >= 6 THEN "HIGH"
    ELSE IF score >= 4 THEN "MEDIUM"
    ELSE IF score >= 2 THEN "LOW"
    ELSE "VERY LOW"

ConfidenceCalled == call.fn = "get_confidence_level" /\ call.done

\* C18: get_confidence_level returns the bucket (HIGH from 6, MEDIUM from 4,
\* LOW from 2, else VERY LOW) of the sum of the probability signal (3, 2, 1
\* or 0 points), the gap signal (2, 1 or 0 points, 0 when the line is 0) and
\* the sample signal (2, 1 or 0 points); (0.62, 30, 25, 35) scores 7, HIGH.
C18_Score ==
    ConfidenceCalled =>
        LET score == SignalScore(call.model_prob, call.projection, call.line, call.n_games)
        IN  /\ confidence_score(call.model_prob, call.projection, call.line,
                                call.n_games) = score
            /\ ret[2] = BucketOf(score)
            /\ (call.model_prob = 62 /\ call.projection = 300 /\ call.line = 250
                   /\ call.n_games = 35) => (score = 7 /\ ret[2] = "HIGH")

\* the call (0.62, 30, 25, 35) returned HIGH
C18_Witness ==
    /\ ConfidenceCalled
    /\ call.model_prob = 62
    /\ call.projection = 300
    /\ call.line = 250
    /\ call.n_games = 35
    /\ ret = <<GreenCircle, "HIGH">>

\* fraction a <= fraction b
FractionLeq(a, b) == a[1] * b[2] <= b[1] * a[2]

\* the rank of a bucket: VERY LOW < LOW < MEDIUM < HIGH
BucketRank(bucket) ==
    CHOOSE i \in 1..4 : <<"VERY LOW", "LOW", "MEDIUM", "HIGH">>[i] = bucket

\* the score and the bucket of (m, p, l, n) are at least those of the call
NotBelowCall(m, p, l, n) ==
    /\ confidence_score(m, p, l, n) >=
           confidence_score(call.model_prob, call.projection, call.line, call.n_games)
    /\ BucketRank(get_confidence_level(m, p, l, n)[2]) >= BucketRank(ret[2])

\* C19: the score of get_confidence_level, and the rank of its bucket, do not
\* decrease when the model probability grows, when the projection gap
\* |projection - line| / line grows, or when the sample size grows, the two
\* other inputs being those of the call.
C19_Monotonic ==
    ConfidenceCalled =>
        /\ \A m \in ModelProbs :
              m >= call.model_prob => NotBelowCall(m, call.projection, call.line, call.n_games)
        /\ \A p \in Projections, l \in PropLines :
              FractionLeq(gap_pct(call.projection, call.line), gap_pct(p, l)) =>
                  NotBelowCall(call.model_prob, p, l, call.n_games)
        /\ \A n \in SampleSizes :
              n >= call.n_games => NotBelowCall(call.model_prob, call.projection, call.line, n)

\* a call that returned LOW and that a larger sample, a larger gap or a
\* larger probability each lifts to MEDIUM
C19_Witness ==
    /\ ConfidenceCalled
    /\ ret[2] = "LOW"
    /\ \E n \in SampleSizes :
          /\ n > call.n_games
          /\ get_confidence_level(call.model_prob, call.projection, call.line, n)[2] = "MEDIUM"
    /\ \E p \in Projections, l \in PropLines :
          /\ ~FractionLeq(gap_pct(p, l), gap_pct(call.projection, call.line))
          /\ get_confidence_level(call.model_prob, p, l, call.n_games)[2] = "MEDIUM"
    /\ \E m \in ModelProbs :
          /\ m > call.model_prob
          /\ get_confidence_level(m, call.projection, call.line, call.n_games)[2] = "MEDIUM"

\* C20: normalize_opponent applied to its own result returns that result,
\* for every token: any case, surrounding blanks, the 2-letter variants,
\* empty or None.
C20_Idempotent ==
    (call.fn = "normalize_opponent" /\ call.done) => normalize_opponent(ret) = ret

\* p arranges the list a into the list b
Arranges(p, a, b) ==
    /\ Len(a) = Len(b)
    /\ \A i, j \in 1..Len(a) : i # j => p[i] # p[j]
    /\ \A i \in 1..Len(b) : b[i] = a[p[i]]

\* C21: for the keys ev, p_model, projection, |p_model - p_book| and odds,
\* sort_results returns the props of the input, each as often as the input
\* has it, by non-increasing key, the props of equal key in their input
\* order; the list it was given is still the input.
C21_StableDescending ==
    (call.fn = "sort_results" /\ call.done /\ call.sort_by # "confidence") =>
        \E p \in [1..Len(call.results) -> 1..Len(call.results)] :
            /\ Arranges(p, call.results, ret)
            /\ \A i, j \in 1..Len(ret) :
                  i < j =>
                      /\ SortKey(call.sort_by, ret[i]) >= SortKey(call.sort_by, ret[j])
                      /\ SortKey(call.sort_by, ret[i]) = SortKey(call.sort_by, ret[j])
                            => p[i] < p[j]

\* a list sorted by ev whose two props of equal ev, not the first of the
\* input, came out first and in their input order
C21_Witness ==
    /\ call.fn = "sort_results"
    /\ call.done
    /\ call.sort_by = "ev"
    /\ Len(ret) = 3
    /\ ret # call.results
    /\ ret[1].ev = ret[2].ev
    /\ ret[1] # ret[2]
    /\ ret[1] = call.results[2]
    /\ ret[2] = call.results[3]

\* C22: sort_results(results, 'confidence') puts the highest confidence
\* first: every HIGH prop before every MEDIUM prop, before every LOW prop,
\* before every VERY LOW prop.
C22_ConfidenceOrder ==
    (call.fn = "sort_results" /\ call.done /\ call.sort_by = "confidence") =>
        \A i, j \in 1..Len(ret) :
            i < j => BucketRank(ConfidenceLabel(ret[i])) >= BucketRank(ConfidenceLabel(ret[j]))

\* the predicates of the active criteria, taken together
Qualifies(r, c) ==
    /\ ~IsNone(c.min_ev) => r.ev >= c.min_ev.n
    /\ ~IsNone(c.min_prob) => r.p_model >= c.min_prob.n
    /\ ~IsNone(c.max_prob) => r.p_model <= c.max_prob.n
    /\ Truthy(c.stats) => r.stat \in UpperTokens(c.stats.s)
    /\ ~IsNone(c.min_games) => r.n_games >= c.min_games.n
    /\ Truthy(c.positions) => r.position \in UpperTokens(c.positions.s)
    /\ Truthy(c.player_search) => Contains(Lower(r.player), Lower(c.player_search.s))

CriteriaNames ==
    {"min_ev", "min_prob", "max_prob", "stats", "min_games", "positions", "player_search"}

\* the criteria of c whose names are in names, the others at their default
Only(c, names) == [k \in CriteriaNames |-> IF k \in names THEN c[k] ELSE PyNone]

\* C23: filter_results returns the props that satisfy every active criterion,
\* in their input order; one criterion in a first call and the others in a
\* second call, in either order, give the list of the single call; the list
\* is empty when no prop qualifies.
C23_ExactlyTheQualifying ==
    (call.fn = "filter_results" /\ call.done) =>
        /\ ret = SelectSeq(call.results, LAMBDA r : Qualifies(r, call.criteria))
        /\ \A k \in CriteriaNames :
              /\ filter_results(filter_results(call.results, Only(call.criteria, {k})),
                                Only(call.criteria, CriteriaNames \ {k})) = ret
              /\ filter_results(filter_results(call.results, Only(call.criteria, CriteriaNames \ {k})),
                                Only(call.criteria, {k})) = ret
        /\ (\A i \in 1..Len(call.results) : ~Qualifies(call.results[i], call.criteria))
              => ret = <<>>

\* three props filtered by four criteria at once: the second and the third
\* are dropped by different criteria, the first is kept
C23_Witness ==
    /\ call.fn = "filter_results"
    /\ call.done
    /\ Len(call.results) = 3
    /\ ret = <<call.results[1]>>
    /\ call.results[2] # call.results[1]
    /\ call.results[3] # call.results[1]
    /\ ~IsNone(call.criteria.min_ev)
    /\ ~IsNone(call.criteria.min_prob)
    /\ Truthy(call.criteria.stats)
    /\ Truthy(call.criteria.player_search)
    /\ call.results[2].ev >= call.criteria.min_ev.n
    /\ call.results[3].ev < call.criteria.min_ev.n

\* C24: a prop is kept by the stat filter whenever its stat is one of the
\* listed stat types up to letter case, whatever the case of either.
C24_CaseInsensitive ==
    (call.fn = "filter_results" /\ call.done /\ Truthy(call.criteria.stats)) =>
        \A i \in 1..Len(call.results) :
            (/\ Qualifies(call.results[i], Only(call.criteria, CriteriaNames \ {"stats"}))
             /\ Upper(call.results[i].stat) \in UpperTokens(call.criteria.stats.s))
                => \E j \in 1..Len(ret) : ret[j] = call.results[i]

RECURSIVE ConcatPages(_)
\* the pages of the yielded tuples, one after the other
ConcatPages(pages) ==
    IF pages = <<>> THEN <<>> ELSE Head(pages)[1] \o ConcatPages(Tail(pages))

\* the least number of pages of size page_size that hold total props
CeilDiv(total, page_size) ==
    CHOOSE n \in 0..total : n * page_size >= total /\ (n = 0 \/ (n - 1) * page_size < total)

\* C25: for a page size of 1 or more, the pages of paginate_results, one
\* after the other, are the input list; there are ceil(total / page_size) of
\* them, numbered 1, 2, ... in order, each reporting that count; every page
\* but the last holds page_size props and none is empty; an empty list has
\* no page.
C25_PagesPartition ==
    (call.fn = "paginate_results" /\ call.done) =>
        LET count == CeilDiv(Len(call.results), call.page_size)
        IN /\ Len(ret) = count
           /\ ConcatPages(ret) = call.results
           /\ \A k \in 1..Len(ret) :
                 /\ ret[k][2] = k
                 /\ ret[k][3] = count
                 /\ Len(ret[k][1]) >= 1
                 /\ Len(ret[k][1]) <= call.page_size
                 /\ k < Len(ret) => Len(ret[k][1]) = call.page_size
           /\ call.results = <<>> => ret = <<>>

\* five props in pages of two: three pages, the last one with one prop
C25_Witness ==
    /\ call.fn = "paginate_results"
    /\ call.done
    /\ Len(call.results) = 5
    /\ call.page_size = 2
    /\ Len(ret) = 3
    /\ Len(ret[3][1]) = 1
    /\ ret[2][1] = SubSeq(call.results, 3, 4)
    /\ ret[2][1][1] # ret[2][1][2]

\* C26: the file export_to_csv writes for a batch of classified props, read
\* again, has as many rows as the batch and, row by row, the hit_miss of
\* the batch (an empty batch writes no file).
C26_RoundTrip ==
    (call.fn = "export_to_csv" /\ call.done) =>
        IF call.results = <<>> THEN ret = PyNone
        ELSE /\ ret # PyNone
             /\ Len(read_csv(ret)) = Len(call.results)
             /\ \A i \in 1..Len(call.results) :
                   /\ "hit_miss" \in DOMAIN read_csv(ret)[i]
                   /\ read_csv(ret)[i]["hit_miss"] = Str(call.results[i].hit_miss)

\* the columns of the verified table, as update_excel_with_results saves it
VerifiedColumns ==
    <<"Player", "Stat", "Line", "Opponent", "Actual_Stat", "Hit_Miss", "Result",
      "Game_Date", "Matchup", "Match_Method", "Days_Old">>

VerifiedFrame ==
    [columns |-> VerifiedColumns,
     rows |-> [i \in 1..Len(df) |->
                 [Player |-> Str(df[i].Player), Stat |-> Str(df[i].Stat),
                  Line |-> Num(df[i].Line), Opponent |-> df[i].Opponent,
                  Actual_Stat |-> df[i].Actual_Stat, Hit_Miss |-> Str(df[i].Hit_Miss),
                  Result |-> Str(df[i].Result), Game_Date |-> df[i].Game_Date,
                  Matchup |-> df[i].Matchup, Match_Method |-> df[i].Match_Method,
                  Days_Old |-> df[i].Days_Old]]]

\* the verified table saved at line 474, read again, has the rows and the
\* Hit_Miss values of the table
VerifiedTableRoundTrip ==
    pc = "done" =>
        /\ Len(read_csv(to_csv(VerifiedFrame))) = Len(df)
        /\ \A i \in 1..Len(df) :
              read_csv(to_csv(VerifiedFrame))[i]["Hit_Miss"] = Str(df[i].Hit_Miss)

\* C27: over any number of invocations of handler, overlapping or not, the
\* Streamlit server is launched at most once.
C27_LaunchedOnce == launched <= 1

\* C28: every processed row's result columns agree with its Hit_Miss, also
\* in a table that carries result columns of an earlier run: Result is the
\* check mark iff HIT, the ballot X iff MISS, the hourglass iff PENDING, and
\* an ERROR or PENDING row has no numeric Actual_Stat and no Game_Date,
\* Matchup, Match_Method or Days_Old.
C28_ColumnsAgree ==
    \A i \in 1..Len(df) :
        i < idx =>
            /\ df[i].Result = CheckMark <=> df[i].Hit_Miss = "HIT"
            /\ df[i].Result = BallotX <=> df[i].Hit_Miss = "MISS"
            /\ df[i].Result = Hourglass <=> df[i].Hit_Miss = "PENDING"
            /\ df[i].Hit_Miss \in {"ERROR", "PENDING"} =>
                  /\ ~IsNum(df[i].Actual_Stat)
                  /\ df[i].Game_Date = Str("")
                  /\ df[i].Matchup = Str("")
                  /\ df[i].Match_Method = Str("")
                  /\ df[i].Days_Old = Str("")

\* the pages of the paginated view on which the prop at position k is shown
PagesShowing(k) ==
    {n \in 1..total_pages(call.results, call.page_size) :
        LET shown == PageShown(call.results, call.page_size, n, "")
        IN  shown.start_idx < k /\ k <= shown.end_idx}

\* C30: in the paginated view of display_compact_table the page number stays
\* within 1..total_pages; 'n' on the last page, 'p' on the first page and an
\* input that is not an option leave the page where it is; the page shown
\* holds the props start_idx + 1 .. end_idx of the list and every prop is on
\* exactly one page; the loop ends on 'q' only.
C30_PageInRange ==
    /\ [](pc = "page" =>
            /\ page_num \in 1..total_pages(call.results, call.page_size)
            /\ ret.page_results = SubSeq(call.results, ret.start_idx + 1, ret.end_idx)
            /\ ret.start_idx = (page_num - 1) * call.page_size
            /\ ret.end_idx >= ret.start_idx + 1
            /\ \A k \in 1..Len(call.results) : Cardinality(PagesShowing(k)) = 1)
    /\ [][pc = "page" =>
            /\ pc' = "page" =>
                  /\ (ret'.nav = "n" /\ page_num = total_pages(call.results, call.page_size))
                        => page_num' = page_num
                  /\ (ret'.nav = "p" /\ page_num = 1) => page_num' = page_num
                  /\ ret'.nav \notin {"n", "p", "q"} => page_num' = page_num
                  /\ (ret'.nav = "n" /\ page_num < total_pages(call.results, call.page_size))
                        => page_num' = page_num + 1
                  /\ (ret'.nav = "p" /\ page_num > 1) => page_num' = page_num - 1
            /\ pc' # "page" => ret'.nav = "q"]_vars

\* the last of three pages, reached by 'n', showing the fifth prop alone
C30_Witness ==
    /\ pc = "page"
    /\ Len(call.results) = 5
    /\ call.page_size = 2
    /\ page_num = 3
    /\ ret.nav = "n"
    /\ ret.page_results = <<call.results[5]>>

\* how often the prop x is in the list
Count(x, list) == Cardinality({i \in 1..Len(list) : list[i] = x})

\* C29: in interactive_display, whatever the choices made, every prop of the
\* current view is a prop of the original results and is there no more often
\* than in them; the original results stay as they were; a sort or a filter
\* never shows more props than before it; after 'Reset All Filters' the view
\* is the original results in their order.
C29_ViewWithinResults ==
    /\ [](pc \in {"menu", "returned", "raised"} =>
            \A i \in 1..Len(current_results) :
                /\ Count(current_results[i], call.results) >= 1
                /\ Count(current_results[i], current_results)
                      <= Count(current_results[i], call.results))
    /\ [][/\ call'.results = call.results
          /\ (pc = "menu" /\ ret' \in SortChoices \cup FilterChoices)
                => Len(current_results') <= Len(current_results)
          /\ (pc = "menu" /\ ret' \in SortChoices)
                => Len(current_results') = Len(current_results)
          /\ (pc = "menu" /\ ret' = "17") => current_results' = call.results]_vars

\* 'Reset All Filters' was chosen on three props that their sort by ev
\* reorders and their positive-EV filter narrows: the view is the three
\* props in their order
C29_Witness ==
    /\ pc = "menu"
    /\ ret = "17"
    /\ Len(call.results) = 3
    /\ current_results = call.results
    /\ sort_results(call.results, "ev") # call.results
    /\ Len(filter_results(call.results, [NoCriteria EXCEPT !.min_ev = Num(1)])) = 2

====
